---------------------------- MODULE Spec2Model ----------------------------
(***************************************************************************)
(* A model of the GeoAPI Python interface layer (package opengis):         *)
(*                                                                         *)
(*   - the code lists (Enum classes) and Python's Enum value/lookup rules; *)
(*   - the entity interfaces (ABC classes made of abstract read-only       *)
(*     properties), their single-inheritance hierarchy, and what Python    *)
(*     does when a concrete subclass is defined, instantiated, read and    *)
(*     assigned to;                                                        *)
(*   - the module bodies (import statements and definitions in source      *)
(*     order) and Python's import machinery executing them;                *)
(*   - the return annotations of the properties, as a client inspecting    *)
(*     the declarations finds them, and their evaluation when deferred;    *)
(*   - the two abbreviation tables of opengis.metadata and the list and    *)
(*     dict operations open to a client;                                   *)
(*   - the corner points a concrete Georectified returns and a reader      *)
(*     gets.                                                               *)
(*                                                                         *)
(* The tables below are transcribed from the source files statement by     *)
(* statement; the operators and actions after them state what the Python   *)
(* runtime does with these statements.                                     *)
(***************************************************************************)
EXTENDS Integers, Sequences, FiniteSets, TLC

(* Bounds of the model. *)
\* successive top-level import requests made by a client in one interpreter
MaxImports == 2
\* abstract properties a concrete subclass may leave unimplemented
MaxOmitted == 1
\* largest number of properties of an entity class the client subclasses
MaxProperties == 10
\* operations a client applies to the abbreviation tables
MaxEdits == 2
\* longest sequence of corner points a producer returns
MaxPoints == 5

None == "None"

(***************************************************************************)
(* Constructors of the table entries.                                      *)
(***************************************************************************)
\* One abstract property: its name and its return annotation, split into
\* annotated (an annotation is written), optional (Optional[..] or .. | None),
\* sequence (Sequence[..]), type (the innermost type as written) and quoted
\* (the innermost type is written as a string literal).
Prop(name, annotated, optional, sequence, type, quoted) ==
    [name |-> name, annotated |-> annotated, optional |-> optional,
     sequence |-> sequence, type |-> type, quoted |-> quoted]

\* One entity class: its single base class and its own properties in order.
Entity(base, props) == [base |-> base, props |-> props]

\* from <module> import <names>
FromImport(module, names) ==
    [kind |-> "from", module |-> module, names |-> names, uses |-> {}]

\* import <module> as <alias>
ImportAs(module, alias) ==
    [kind |-> "import", module |-> module, names |-> {alias}, uses |-> {}]

\* A class statement or a top-level assignment: binds one name after
\* evaluating the names in `uses` (base classes, decorators, and the return
\* annotations when the module does not postpone their evaluation).
Define(name, uses) ==
    [kind |-> "def", module |-> "", names |-> {name}, uses |-> uses]

(***************************************************************************)
(* The source, file by file: code lists as sequences of <<symbolic name,   *)
(* external value>> in declaration order, entity classes, module bodies.   *)
(***************************************************************************)
\* The two abbreviation tables of opengis/metadata/__init__.py: lists of
\* dictionaries, entry by entry in source order, keys as written.
abbreviated_terms ==
    << [ abbreviation |-> "OCL", term |-> "Object Constraint Language" ],
       [ abbreviation |-> "OGC", term |-> "Open Geospatial Consortium" ],
       [ abbreviation |-> "UML", term |-> "Unified Modelling Language" ],
       [ abbreviation |-> "XML", term |-> "Extensible Markup Language" ] >>

abbreviated_terms_packages ==
    << [ abbreviation |-> "CI", term |-> "Citation", stadard |-> "ISO 19115-1" ],
       [ abbreviation |-> "DQ", term |-> "Data Quality", stadard |-> "ISO 19157" ],
       [ abbreviation |-> "DS", term |-> "Dataset", stadard |-> "ISO 19115-1" ],
       [ abbreviation |-> "EX", term |-> "Extent", stadard |-> "ISO 19115-1" ],
       [ abbreviation |-> "FC", term |-> "Feature Catalog", stadard |-> "ISO 19110" ],
       [ abbreviation |-> "GF", term |-> "General Feature", stadard |-> "ISO 19109" ],
       [ abbreviation |-> "GM", term |-> "Geometry", stadard |-> "ISO 19107" ],
       [ abbreviation |-> "LI", term |-> "Lineage", stadard |-> "ISO 19115-1" ],
       [ abbreviation |-> "LE", term |-> "Lineage Extended", stadard |-> "ISO 19115-2" ],
       [ abbreviation |-> "MD", term |-> "Metadata", stadard |-> "ISO 19115-1" ],
       [ abbreviation |-> "PT", term |-> "Polylinguistic text", stadard |-> "ISO/TS 19103" ],
       [ abbreviation |-> "RS", term |-> "Reference System", stadard |-> "ISO 19115-1" ],
       [ abbreviation |-> "SC", term |-> "Spatial Coordinates", stadard |-> "ISO 19111" ],
       [ abbreviation |-> "SV", term |-> "Metadata for Services", stadard |-> "ISO 19115-1" ],
       [ abbreviation |-> "TM", term |-> "Temporal", stadard |-> "ISO 19108" ] >>

MetadataBody ==
    << Define("__author__", {}),
       Define("abbreviated_terms", {}),
       Define("abbreviated_terms_packages", {}) >>

DateTypeCode ==
    << <<"CREATION", "creation">>,
       <<"PUBLICATION", "publication">>,
       <<"REVISION", "revision">>,
       <<"EXPIRY", "expiry">>,
       <<"LAST_UPDATE", "lastUpdate">>,
       <<"LAST_REVISION", "lastRevision">>,
       <<"NEXT_UPDATE", "nextUpdate">>,
       <<"UNAVAILABLE", "unavailable">>,
       <<"IN_FORCE", "inForce">>,
       <<"ADOPTED", "adopted">>,
       <<"DEPRECATED", "deprecated">>,
       <<"SUPERSEDED", "superseded">>,
       <<"VALIDITY_BEGINS", "validityBegins">>,
       <<"VALIDITY_EXPIRES", "validityExpires">>,
       <<"RELEASED", "released">>,
       <<"DISTRIBUTION", "distribution">> >>

OnLineFunctionCode ==
    << <<"DOWNLOAD", "download">>,
       <<"INFORMATION", "information">>,
       <<"OFFLINE_ACCESS", "offlineAccess">>,
       <<"ORDER", "order">>,
       <<"SEARCH", "search">>,
       <<"COMPLETE_METADATA", "completeMetadata">>,
       <<"BROWSE_GRAPHIC", "browseGraphic">>,
       <<"UPLOAD", "upload">>,
       <<"EMAIL_SERVICE", "emailService">>,
       <<"BROWSING", "browsing">>,
       <<"FILE_ACCESS", "fileAccess">> >>

PresentationFormCode ==
    << <<"DOCUMENT_DIGITAL", "documentDigital">>,
       <<"DOCUMENT_HARDCOPY", "documentHardcopy">>,
       <<"IMAGE_DIGITAL", "imageDigital">>,
       <<"IMAGE_HARDCOPY", "imageHardcopy">>,
       <<"MAP_DIGITAL", "mapDigital">>,
       <<"MAP_HARDCOPY", "mapHardcopy">>,
       <<"MODEL_DIGITAL", "modelDigital">>,
       <<"MODEL_HARDCOPY", "modelHardcopy">>,
       <<"PROFILE_DIGITAL", "profileDigital">>,
       <<"PROFILE_HARDCOPY", "profileHardcopy">>,
       <<"TABLE_DIGITAL", "tableDigital">>,
       <<"TABLE_HARDCOPY", "tableHardcopy">>,
       <<"VIDEO_DIGITAL", "videoDigital">>,
       <<"VIDEO_HARDCOPY", "videoHardcopy">>,
       <<"AUDIO_DIGITAL", "audioDigital">>,
       <<"AUDIO_HARDCOPY", "audioHardcopy">>,
       <<"MULTIMEDIA_DIGITAL", "multimediaDigital">>,
       <<"MULTIMEDIA_HARDCOPY", "multimediaHardcopy">>,
       <<"PHYSICAL_OBJECT", "physicalObject">>,
       <<"DIAGRAM_DIGITAL", "diagramDigital">>,
       <<"DIAGRAM_HARDCOPY", "diagramHardcopy">> >>

RoleCode ==
    << <<"RESOURCE_PROVIDER", "resourceProvider">>,
       <<"CUSTODIAN", "custodian">>,
       <<"OWNER", "owner">>,
       <<"USER", "user">>,
       <<"DISTRIBUTOR", "distributor">>,
       <<"ORIGINATOR", "originator">>,
       <<"POINT_OF_CONTACT", "pointOfContact">>,
       <<"PRINCIPAL_INVESTIGATOR", "principalInvestigator">>,
       <<"PROCESSOR", "processor">>,
       <<"PUBLISHER", "publisher">>,
       <<"AUTHOR", "author">>,
       <<"SPONSOR", "sponsor">>,
       <<"CO_AUTHOR", "coAuthor">>,
       <<"COLLABORATOR", "collaborator">>,
       <<"EDITOR", "editor">>,
       <<"MEDIATOR", "mediator">>,
       <<"RIGHTS_HOLDER", "rightsHolder">>,
       <<"CONTRIBUTOR", "contributor">>,
       <<"FUNDER", "funder">>,
       <<"STAKEHOLDER", "stakeholder">> >>

TelephoneTypeCode ==
    << <<"VOICE", "voice">>,
       <<"FACSIMILE", "facsimile">>,
       <<"SMS", "sms">> >>

CitationEntities ==
    [ Series |-> Entity("ABC", <<Prop("name", TRUE, FALSE, FALSE, "str", FALSE),
            Prop("issue_identification", TRUE, FALSE, FALSE, "str", FALSE),
            Prop("page", TRUE, FALSE, FALSE, "str", FALSE)>>),
      Address |-> Entity("ABC", <<Prop("delivery_point", TRUE, FALSE, TRUE, "str", FALSE),
            Prop("city", TRUE, FALSE, FALSE, "str", FALSE),
            Prop("administrative_area", TRUE, FALSE, FALSE, "str", FALSE),
            Prop("postal_code", TRUE, FALSE, FALSE, "str", FALSE),
            Prop("country", TRUE, FALSE, FALSE, "str", FALSE),
            Prop("electronic_mail_address", TRUE, FALSE, TRUE, "str", FALSE)>>),
      Telephone |-> Entity("ABC", <<Prop("number", TRUE, FALSE, FALSE, "str", FALSE),
            Prop("number_type", TRUE, FALSE, FALSE, "TelephoneTypeCode", FALSE)>>),
      OnlineResource |-> Entity("ABC", <<Prop("linkage", FALSE, FALSE, FALSE, "", FALSE),
            Prop("protocol", TRUE, FALSE, FALSE, "str", FALSE),
            Prop("application_profile", TRUE, FALSE, FALSE, "str", FALSE),
            Prop("name", TRUE, FALSE, FALSE, "str", FALSE),
            Prop("description", TRUE, FALSE, FALSE, "str", FALSE),
            Prop("function", TRUE, FALSE, FALSE, "OnLineFunctionCode", FALSE),
            Prop("protocol_request", TRUE, FALSE, FALSE, "str", FALSE)>>),
      Contact |-> Entity("ABC", <<Prop("phone", TRUE, FALSE, TRUE, "Telephone", FALSE),
            Prop("address", TRUE, FALSE, TRUE, "Address", FALSE),
            Prop("online_resource", TRUE, FALSE, TRUE, "OnlineResource", FALSE),
            Prop("hours_of_service", TRUE, FALSE, TRUE, "str", FALSE),
            Prop("contact_instructions", TRUE, FALSE, FALSE, "str", FALSE),
            Prop("contact_type", TRUE, FALSE, FALSE, "str", FALSE)>>),
      Party |-> Entity("ABC", <<Prop("name", TRUE, FALSE, FALSE, "str", FALSE),
            Prop("contact_info", TRUE, FALSE, TRUE, "Contact", FALSE),
            Prop("party_identifier", TRUE, FALSE, TRUE, "Identifier", TRUE)>>),
      Responsibility |-> Entity("ABC", <<Prop("role", TRUE, FALSE, FALSE, "RoleCode", FALSE),
            Prop("extent", TRUE, FALSE, TRUE, "Extent", FALSE),
            Prop("party", TRUE, FALSE, TRUE, "Party", FALSE)>>),
      Individual |-> Entity("Party", <<Prop("position_name", TRUE, FALSE, FALSE, "str", FALSE)>>),
      Organisation |-> Entity("Party", <<Prop("logo", TRUE, FALSE, TRUE, "BrowseGraphic", FALSE),
            Prop("individual", TRUE, FALSE, TRUE, "Individual", FALSE)>>),
      Date |-> Entity("ABC", <<Prop("date", TRUE, FALSE, FALSE, "datetime", FALSE),
            Prop("date_type", TRUE, FALSE, FALSE, "DateTypeCode", FALSE)>>),
      Citation |-> Entity("ABC", <<Prop("title", TRUE, FALSE, FALSE, "str", FALSE),
            Prop("alternate_title", TRUE, FALSE, TRUE, "str", FALSE),
            Prop("date", TRUE, FALSE, TRUE, "Date", FALSE),
            Prop("edition", TRUE, FALSE, FALSE, "str", FALSE),
            Prop("edition_date", TRUE, FALSE, FALSE, "datetime", FALSE),
            Prop("identifier", TRUE, FALSE, TRUE, "Identifier", TRUE),
            Prop("cited_responsible_party", TRUE, FALSE, TRUE, "Responsibility", FALSE),
            Prop("presentation_form", TRUE, FALSE, TRUE, "PresentationFormCode", FALSE),
            Prop("series", TRUE, FALSE, FALSE, "Series", FALSE),
            Prop("other_citation_details", TRUE, FALSE, TRUE, "str", FALSE),
            Prop("isbn", TRUE, FALSE, FALSE, "str", FALSE),
            Prop("issn", TRUE, FALSE, FALSE, "str", FALSE),
            Prop("online_resource", TRUE, FALSE, TRUE, "OnlineResource", FALSE),
            Prop("graphic", TRUE, FALSE, TRUE, "BrowseGraphic", TRUE)>>),
      Identifier |-> Entity("ABC", <<Prop("authority", TRUE, FALSE, FALSE, "Citation", FALSE),
            Prop("code", TRUE, FALSE, FALSE, "str", FALSE),
            Prop("code_space", TRUE, FALSE, FALSE, "str", FALSE),
            Prop("version", TRUE, FALSE, FALSE, "str", FALSE),
            Prop("description", TRUE, FALSE, FALSE, "str", FALSE)>>) ]

CitationBody ==
    << Define("__author__", {}),
       FromImport("abc", {"ABC", "abstractmethod"}),
       FromImport("collections.abc", {"Sequence"}),
       FromImport("datetime", {"datetime"}),
       FromImport("enum", {"Enum"}),
       FromImport("opengis.metadata.extent", {"Extent"}),
       FromImport("opengis.metadata.identification", {"BrowseGraphic"}),
       Define("DateTypeCode", {"Enum"}),
       Define("OnLineFunctionCode", {"Enum"}),
       Define("PresentationFormCode", {"Enum"}),
       Define("RoleCode", {"Enum"}),
       Define("TelephoneTypeCode", {"Enum"}),
       Define("Series", {"ABC", "property", "abstractmethod", "str"}),
       Define("Address", {"ABC", "property", "abstractmethod", "Sequence", "str"}),
       Define("Telephone", {"ABC", "property", "abstractmethod", "str", "TelephoneTypeCode"}),
       Define("OnlineResource", {"ABC", "property", "abstractmethod", "str", "OnLineFunctionCode"}),
       Define("Contact", {"ABC", "property", "abstractmethod", "Sequence", "Telephone", "Address", "OnlineResource", "str"}),
       Define("Party", {"ABC", "property", "abstractmethod", "str", "Sequence", "Contact"}),
       Define("Responsibility", {"ABC", "property", "abstractmethod", "RoleCode", "Sequence", "Extent", "Party"}),
       Define("Individual", {"Party", "property", "abstractmethod", "str"}),
       Define("Organisation", {"Party", "property", "abstractmethod", "Sequence", "BrowseGraphic", "Individual"}),
       Define("Date", {"ABC", "property", "abstractmethod", "datetime", "DateTypeCode"}),
       Define("Citation", {"ABC", "property", "abstractmethod", "str", "Sequence", "Date", "datetime", "Responsibility", "PresentationFormCode", "Series", "OnlineResource"}),
       Define("Identifier", {"ABC", "property", "abstractmethod", "Citation", "str"}) >>

ClassificationCode ==
    << <<"UNCLASSIFIED", "unclassified">>,
       <<"RESTRICTED", "restricted">>,
       <<"CONFIDENTIAL", "confidential">>,
       <<"SECRET", "secret">>,
       <<"TOP_SECRET", "topSecret">>,
       <<"SENSITIVE_BUT_UNCLASSIFIED", "sensitiveButUnclassified">>,
       <<"FOR_OFFICIAL_USE_ONLY", "forOfficialUseOnly">>,
       <<"PROTECTED", "protected">>,
       <<"LIMITED_DISTRIBUTION", "limitedDistribution">> >>

RestrictionCode ==
    << <<"COPYRIGHT", "copyright">>,
       <<"PATENT", "patent">>,
       <<"PATENT_PENDING", "patentPending">>,
       <<"TRADEMARK", "trademark">>,
       <<"LICENCE", "licence">>,
       <<"INTELLECTUAL_PROPERTY_RIGHTS", "intellectualPropertyRights">>,
       <<"RESTRICTED", "restricted">>,
       <<"OTHER_RESTRICTIONS", "otherRestrictions">>,
       <<"UNRESTRICTED", "unrestricted">>,
       <<"LICENCE_UNRESTRICTED", "licenceUnrestricted">>,
       <<"LICENCE_END_USER", "licenceEndUser">>,
       <<"LICENCE_DISTRIBUTOR", "licenceDistributor">>,
       <<"PRIVATE", "private">>,
       <<"STATUTORY", "statutory">>,
       <<"CONFIDENTIAL", "confidential">>,
       <<"SENSITIVE_BUT_UNCLASSIFIED", "sensitiveButUnclassified">>,
       <<"IN_CONFIDENCE", "in-confidence">> >>

ConstraintsEntities ==
    [ Releasability |-> Entity("ABC", <<Prop("addressee", TRUE, TRUE, TRUE, "Responsibility", FALSE),
            Prop("statement", TRUE, TRUE, FALSE, "str", FALSE),
            Prop("dissemination_constraints", TRUE, TRUE, TRUE, "RestrictionCode", FALSE)>>),
      Constraints |-> Entity("ABC", <<Prop("use_limitation", TRUE, TRUE, TRUE, "str", FALSE),
            Prop("constraint_application_scope", TRUE, TRUE, FALSE, "Scope", FALSE),
            Prop("graphic", TRUE, TRUE, TRUE, "BrowseGraphic", FALSE),
            Prop("reference", TRUE, TRUE, TRUE, "Citation", FALSE),
            Prop("releasability", TRUE, TRUE, FALSE, "Releasability", FALSE),
            Prop("responsible_party", TRUE, TRUE, TRUE, "Responsibility", FALSE)>>),
      LegalConstraints |-> Entity("Constraints", <<Prop("access_constraints", TRUE, TRUE, TRUE, "RestrictionCode", FALSE),
            Prop("use_constraints", TRUE, TRUE, TRUE, "RestrictionCode", FALSE),
            Prop("other_constraints", TRUE, TRUE, TRUE, "str", FALSE)>>),
      SecurityConstraints |-> Entity("Constraints", <<Prop("classification", TRUE, FALSE, FALSE, "ClassificationCode", FALSE),
            Prop("user_note", TRUE, TRUE, FALSE, "str", FALSE),
            Prop("classification_system", TRUE, TRUE, FALSE, "str", FALSE),
            Prop("handling_description", TRUE, TRUE, FALSE, "str", FALSE)>>) ]

ConstraintsBody ==
    << Define("__author__", {}),
       FromImport("abc", {"ABC", "abstractmethod"}),
       FromImport("collections.abc", {"Sequence"}),
       FromImport("enum", {"Enum"}),
       FromImport("typing", {"Optional"}),
       FromImport("opengis.metadata.citation", {"Citation", "Responsibility"}),
       FromImport("opengis.metadata.identification", {"BrowseGraphic"}),
       FromImport("opengis.metadata.maintenance", {"Scope"}),
       Define("ClassificationCode", {"Enum"}),
       Define("RestrictionCode", {"Enum"}),
       Define("Releasability", {"ABC", "property", "abstractmethod", "Optional", "Sequence", "Responsibility", "str", "RestrictionCode"}),
       Define("Constraints", {"ABC", "property", "abstractmethod", "Optional", "Sequence", "str", "Scope", "BrowseGraphic", "Citation", "Releasability", "Responsibility"}),
       Define("LegalConstraints", {"Constraints", "property", "abstractmethod", "Optional", "Sequence", "RestrictionCode", "str"}),
       Define("SecurityConstraints", {"Constraints", "property", "abstractmethod", "ClassificationCode", "Optional", "str"}) >>

\* Faulty variant of BandDefinition: HALF_MAXIMUM given the token of
\* THREE_DB (the two members carry the same docstring in the source).
BandDefinitionDuplicated ==
    << <<"THREE_DB", "3dB">>,
       <<"HALF_MAXIMUM", "3dB">>,
       <<"FIFTY_PERCENT", "fiftyPercent">>,
       <<"ONE_OVER_E", "oneOverE">>,
       <<"EQUIVALENT_WIDTH", "equivalentWidth">> >>

BandDefinition ==
    << <<"THREE_DB", "3dB">>,
       <<"HALF_MAXIMUM", "halfMaximum">>,
       <<"FIFTY_PERCENT", "fiftyPercent">>,
       <<"ONE_OVER_E", "oneOverE">>,
       <<"EQUIVALENT_WIDTH", "equivalentWidth">> >>

CoverageContentTypeCode ==
    << <<"IMAGE", "image">>,
       <<"THEMATIC_CLASSIFICATION", "thematicClassification">>,
       <<"PHYSICAL_MEASUREMENT", "physicalMeasurement">>,
       <<"AUXILLARY_INFORMATION", "auxillaryInformation">>,
       <<"QUALITY_INFORMATION", "qualityInformation">>,
       <<"REFERENCE_INFORMATION", "referenceInformation">>,
       <<"MODEL_RESULT", "modelResult">>,
       <<"COORDINATE", "coordinate">> >>

ImagingConditionCode ==
    << <<"BLURRED_IMAGE", "blurredImage">>,
       <<"CLOUD", "cloud">>,
       <<"DEGRADING_OBLIQUITY", "degradingObliquity">>,
       <<"FOG", "fog">>,
       <<"HEAVY_SMOKE_OR_DUST", "heavySmokeOrDust">>,
       <<"NIGHT", "night">>,
       <<"RAIN", "rain">>,
       <<"SEMI_DARKNESS", "semiDarkness">>,
       <<"SHADOW", "shadow">>,
       <<"SNOW", "snow">>,
       <<"TERRAIN_MASKING", "terrainMasking">> >>

PolarisationOrientationCode ==
    << <<"HORIZONTAL", "horizontal">>,
       <<"VERTICAL", "vertical">>,
       <<"LEFT_CIRCULAR", "leftCircular">>,
       <<"RIGHT_CIRCULAR", "rightCircular">>,
       <<"THETA", "theta">>,
       <<"PHI", "phi">> >>

TransferFunctionTypeCode ==
    << <<"LINEAR", "linear">>,
       <<"LOGARITHMIC", "logarithmic">>,
       <<"EXPONENTIAL", "exponential">> >>

ContentEntities ==
    [ RangeElementDescription |-> Entity("ABC", <<Prop("name", TRUE, FALSE, FALSE, "str", FALSE),
            Prop("definition", TRUE, FALSE, FALSE, "str", FALSE),
            Prop("range_element", TRUE, FALSE, TRUE, "Record", FALSE)>>),
      RangeDimension |-> Entity("ABC", <<Prop("sequence_identifier", TRUE, FALSE, FALSE, "MemberName", FALSE),
            Prop("description", TRUE, FALSE, FALSE, "str", FALSE),
            Prop("name", TRUE, FALSE, TRUE, "Identifier", FALSE)>>),
      AttributeGroup |-> Entity("ABC", <<Prop("content_type", TRUE, FALSE, TRUE, "CoverageContentTypeCode", FALSE),
            Prop("attribute", TRUE, FALSE, TRUE, "RangeDimension", FALSE)>>),
      SampleDimension |-> Entity("RangeDimension", <<Prop("max_value", TRUE, FALSE, FALSE, "float", FALSE),
            Prop("min_value", TRUE, FALSE, FALSE, "float", FALSE),
            Prop("units", TRUE, FALSE, FALSE, "UnitOfMeasure", FALSE),
            Prop("scale_factor", TRUE, FALSE, FALSE, "float", FALSE),
            Prop("offset", TRUE, FALSE, FALSE, "float", FALSE),
            Prop("mean_value", TRUE, FALSE, FALSE, "float", FALSE),
            Prop("number_of_values", TRUE, FALSE, FALSE, "int", FALSE),
            Prop("standard_deviation", TRUE, FALSE, FALSE, "float", FALSE),
            Prop("other_property_type", TRUE, FALSE, FALSE, "RecordType", FALSE),
            Prop("other_property", TRUE, FALSE, FALSE, "Record", FALSE),
            Prop("bits_per_value", TRUE, FALSE, FALSE, "int", FALSE),
            Prop("transfer_function_type", TRUE, TRUE, FALSE, "TransferFunctionTypeCode", FALSE),
            Prop("range_element_description", TRUE, FALSE, TRUE, "RangeElementDescription", FALSE),
            Prop("nominal_spatial_resolution", TRUE, TRUE, FALSE, "float", FALSE)>>),
      Band |-> Entity("SampleDimension", <<Prop("bound_max", TRUE, FALSE, FALSE, "float", FALSE),
            Prop("bound_min", TRUE, FALSE, FALSE, "float", FALSE),
            Prop("bound_units", TRUE, FALSE, FALSE, "UomLength", FALSE),
            Prop("peak_response", TRUE, FALSE, FALSE, "float", FALSE),
            Prop("tone_gradation", TRUE, FALSE, FALSE, "int", FALSE),
            Prop("band_boundary_definition", TRUE, TRUE, FALSE, "BandDefinition", FALSE),
            Prop("transmitted_polarisation", TRUE, TRUE, FALSE, "PolarisationOrientationCode", FALSE),
            Prop("detected_polarisation", TRUE, TRUE, FALSE, "PolarisationOrientationCode", FALSE)>>),
      ContentInformation |-> Entity("ABC", <<>>),
      CoverageDescription |-> Entity("ContentInformation", <<Prop("attribute_description", TRUE, FALSE, FALSE, "RecordType", FALSE),
            Prop("processing_level_code", TRUE, FALSE, FALSE, "Identifier", FALSE),
            Prop("attribute_group", TRUE, FALSE, TRUE, "AttributeGroup", FALSE),
            Prop("range_element_description", TRUE, TRUE, TRUE, "RangeElementDescription", FALSE)>>),
      ImageDescription |-> Entity("CoverageDescription", <<Prop("illumination_elevation_angle", TRUE, FALSE, FALSE, "float", FALSE),
            Prop("illumination_azimuth_angle", TRUE, FALSE, FALSE, "float", FALSE),
            Prop("imaging_condition", TRUE, FALSE, FALSE, "ImagingConditionCode", FALSE),
            Prop("image_quality_code", TRUE, FALSE, FALSE, "Identifier", FALSE),
            Prop("cloud_cover_percentage", TRUE, FALSE, FALSE, "float", FALSE),
            Prop("compression_generation_quantity", TRUE, FALSE, FALSE, "int", FALSE),
            Prop("triangulation_indicator", FALSE, FALSE, FALSE, "", FALSE),
            Prop("radiometric_calibration_data_availability", FALSE, FALSE, FALSE, "", FALSE),
            Prop("camera_calibration_information_availability", FALSE, FALSE, FALSE, "", FALSE),
            Prop("film_distortion_information_availability", FALSE, FALSE, FALSE, "", FALSE),
            Prop("lens_distortion_information_availability", FALSE, FALSE, FALSE, "", FALSE)>>),
      FeatureTypeInfo |-> Entity("ABC", <<Prop("feature_type_name", TRUE, FALSE, FALSE, "GenericName", FALSE),
            Prop("feature_instance_count", TRUE, FALSE, FALSE, "int", FALSE)>>),
      FeatureCatalogueDescription |-> Entity("ContentInformation", <<Prop("compliance_code", FALSE, FALSE, FALSE, "", FALSE),
            Prop("locale", FALSE, FALSE, FALSE, "", FALSE),
            Prop("included_with_dataset", FALSE, FALSE, FALSE, "", FALSE),
            Prop("feature_types", TRUE, FALSE, TRUE, "FeatureTypeInfo", FALSE),
            Prop("feature_catalogue_citation", TRUE, FALSE, TRUE, "Citation", FALSE)>>) ]

ContentBody ==
    << Define("__author__", {}),
       FromImport("abc", {"ABC", "abstractmethod"}),
       FromImport("collections.abc", {"Sequence"}),
       FromImport("enum", {"Enum"}),
       FromImport("typing", {"Optional"}),
       FromImport("opengis.metadata.citation", {"Citation", "Identifier"}),
       FromImport("opengis.metadata.naming", {"GenericName", "MemberName", "Record", "RecordType"}),
       Define("BandDefinition", {"Enum"}),
       Define("CoverageContentTypeCode", {"Enum"}),
       Define("ImagingConditionCode", {"Enum"}),
       Define("PolarisationOrientationCode", {"Enum"}),
       Define("TransferFunctionTypeCode", {"Enum"}),
       Define("RangeElementDescription", {"ABC", "property", "abstractmethod", "str", "Sequence", "Record"}),
       Define("RangeDimension", {"ABC", "property", "abstractmethod", "MemberName", "str", "Sequence", "Identifier"}),
       Define("AttributeGroup", {"ABC", "property", "abstractmethod", "Sequence", "CoverageContentTypeCode", "RangeDimension"}),
       Define("SampleDimension", {"RangeDimension", "property", "abstractmethod", "float", "UnitOfMeasure", "int", "RecordType", "Record", "Optional", "TransferFunctionTypeCode", "Sequence", "RangeElementDescription"}),
       Define("Band", {"SampleDimension", "property", "abstractmethod", "float", "UomLength", "int", "Optional", "BandDefinition", "PolarisationOrientationCode"}),
       Define("ContentInformation", {"ABC"}),
       Define("CoverageDescription", {"ContentInformation", "property", "abstractmethod", "RecordType", "Identifier", "Sequence", "AttributeGroup", "Optional", "RangeElementDescription"}),
       Define("ImageDescription", {"CoverageDescription", "property", "abstractmethod", "float", "ImagingConditionCode", "Identifier", "int"}),
       Define("FeatureTypeInfo", {"ABC", "property", "abstractmethod", "GenericName", "int"}),
       Define("FeatureCatalogueDescription", {"ContentInformation", "property", "abstractmethod", "Sequence", "FeatureTypeInfo", "Citation"}) >>

MediumFormatCode ==
    << <<"CPIO", "cpio">>,
       <<"TAR", "tar">>,
       <<"HIGH_SIERRA", "highSierra">>,
       <<"ISO_9660", "iso9660">>,
       <<"ISO_9660_ROCK_RIDGE", "iso9660RockRidge">>,
       <<"ISO_9660_APPLE_HFS", "iso9660AppleHFS">>,
       <<"UDF", "udf">> >>

DistributionEntities ==
    [ Medium |-> Entity("ABC", <<Prop("name", TRUE, TRUE, FALSE, "meta_citation.Citation", FALSE),
            Prop("density", TRUE, TRUE, FALSE, "float", FALSE),
            Prop("density_units", TRUE, TRUE, FALSE, "str", FALSE),
            Prop("volumes", TRUE, TRUE, FALSE, "int", FALSE),
            Prop("medium_format", TRUE, TRUE, TRUE, "MediumFormatCode", FALSE),
            Prop("medium_note", TRUE, TRUE, FALSE, "str", FALSE),
            Prop("identifier", TRUE, TRUE, FALSE, "meta_citation.Identifier", FALSE)>>),
      Format |-> Entity("ABC", <<Prop("format_specification_citation", TRUE, FALSE, FALSE, "meta_citation.Citation", FALSE),
            Prop("amendment_number", TRUE, TRUE, FALSE, "str", FALSE),
            Prop("file_decompression_technique", TRUE, TRUE, FALSE, "str", FALSE),
            Prop("medium", TRUE, TRUE, TRUE, "Medium", FALSE),
            Prop("format_distributor", TRUE, TRUE, TRUE, "Distributor", FALSE)>>),
      DataFile |-> Entity("ABC", <<Prop("file_name", TRUE, FALSE, FALSE, "str", FALSE),
            Prop("file_description", TRUE, FALSE, FALSE, "str", FALSE),
            Prop("file_type", TRUE, FALSE, FALSE, "str", FALSE),
            Prop("feature_types", TRUE, FALSE, TRUE, "meta_naming.GenericName", FALSE)>>),
      StandardOrderProcess |-> Entity("ABC", <<Prop("fees", TRUE, TRUE, FALSE, "str", FALSE),
            Prop("planned_available_date_time", TRUE, TRUE, FALSE, "datetime", FALSE),
            Prop("ordering_instructions", TRUE, TRUE, FALSE, "str", FALSE),
            Prop("turnaround", TRUE, TRUE, FALSE, "str", FALSE),
            Prop("order_options_type", TRUE, TRUE, FALSE, "meta_naming.RecordType", FALSE),
            Prop("order_options", TRUE, TRUE, FALSE, "meta_naming.Record", FALSE)>>),
      Distributor |-> Entity("ABC", <<Prop("distributor_contact", TRUE, FALSE, FALSE, "meta_citation.Responsibility", FALSE),
            Prop("distribution_order_process", TRUE, TRUE, TRUE, "StandardOrderProcess", FALSE),
            Prop("distributor_format", TRUE, TRUE, TRUE, "Format", FALSE),
            Prop("distributor_transfer_options", TRUE, TRUE, TRUE, "DigitalTransferOptions", FALSE)>>),
      Distribution |-> Entity("ABC", <<Prop("description", TRUE, TRUE, FALSE, "str", FALSE),
            Prop("distribution_format", TRUE, TRUE, TRUE, "Format", FALSE),
            Prop("distributor", TRUE, TRUE, TRUE, "Distributor", FALSE),
            Prop("transfer_options", TRUE, TRUE, TRUE, "DigitalTransferOptions", FALSE)>>),
      DigitalTransferOptions |-> Entity("ABC", <<Prop("units_of_distribution", TRUE, TRUE, FALSE, "str", FALSE),
            Prop("transfer_size", TRUE, TRUE, FALSE, "float", FALSE),
            Prop("on_line", TRUE, TRUE, TRUE, "meta_citation.OnlineResource", FALSE),
            Prop("off_line", TRUE, TRUE, TRUE, "Medium", FALSE),
            Prop("transfer_frequency", TRUE, TRUE, FALSE, "timedelta", FALSE),
            Prop("distribution_format", TRUE, TRUE, TRUE, "Format", FALSE)>>) ]

DistributionBody ==
    << FromImport("__future__", {"annotations"}),
       FromImport("abc", {"ABC", "abstractmethod"}),
       FromImport("collections.abc", {"Sequence"}),
       FromImport("datetime", {"datetime", "timedelta"}),
       FromImport("enum", {"Enum"}),
       ImportAs("opengis.metadata.citation", "meta_citation"),
       ImportAs("opengis.metadata.naming", "meta_naming"),
       Define("__author__", {}),
       Define("MediumFormatCode", {"Enum"}),
       Define("Medium", {"ABC", "property", "abstractmethod"}),
       Define("Format", {"ABC", "property", "abstractmethod"}),
       Define("DataFile", {"ABC", "property", "abstractmethod"}),
       Define("StandardOrderProcess", {"ABC", "property", "abstractmethod"}),
       Define("Distributor", {"ABC", "property", "abstractmethod"}),
       Define("Distribution", {"ABC", "property", "abstractmethod"}),
       Define("DigitalTransferOptions", {"ABC", "property", "abstractmethod"}) >>

DatatypeCode ==
    << <<"CLASS", "class">>,
       <<"CODE_LIST", "codelist">>,
       <<"ENUMERATION", "enumeration">>,
       <<"CODE_LIST_ELEMENT", "codelistElement">>,
       <<"ABSTRACT_CLASS", "abstractClass">>,
       <<"AGGREGATE_CLASS", "aggregateClass">>,
       <<"SPECIFIED_CLASS", "specifiedClass">>,
       <<"DATATYPE_CLASS", "datatypeClass">>,
       <<"INTERFACE_CLASS", "interfaceClass">>,
       <<"UNION_CLASS", "unionClass">>,
       <<"META_CLASS", "metaClass">>,
       <<"TYPE_CLASS", "typeClass">>,
       <<"CHARACTER_STRING", "characterString">>,
       <<"INTEGER", "integer">>,
       <<"ASSOCIATION", "association">> >>

ObligationCode ==
    << <<"MANDATORY", "mandatory">>,
       <<"OPTIONAL", "optional">>,
       <<"CONDITIONAL", "conditional">>,
       <<"FORBIDDEN", "null">> >>

ExtensionEntities ==
    [ ApplicationSchemaInformation |-> Entity("ABC", <<Prop("name", TRUE, FALSE, FALSE, "Citation", FALSE),
            Prop("schema_language", TRUE, FALSE, FALSE, "str", FALSE),
            Prop("constraint_language", TRUE, FALSE, FALSE, "str", FALSE),
            Prop("schema_ascii", TRUE, FALSE, FALSE, "str", FALSE),
            Prop("graphics_file", TRUE, FALSE, FALSE, "OnlineResource", FALSE),
            Prop("software_development_file", TRUE, FALSE, FALSE, "OnlineResource", FALSE),
            Prop("software_development_file_format", TRUE, FALSE, FALSE, "str", FALSE)>>),
      ExtendedElementInformation |-> Entity("ABC", <<Prop("name", TRUE, FALSE, FALSE, "str", FALSE),
            Prop("definition", TRUE, FALSE, FALSE, "str", FALSE),
            Prop("obligation", TRUE, FALSE, FALSE, "ObligationCode", FALSE),
            Prop("condition", TRUE, FALSE, FALSE, "str", FALSE),
            Prop("data_type", TRUE, FALSE, FALSE, "DatatypeCode", FALSE),
            Prop("maximum_occurrence", TRUE, FALSE, FALSE, "int", FALSE),
            Prop("domain_value", TRUE, FALSE, FALSE, "str", FALSE),
            Prop("parent_entity", TRUE, FALSE, TRUE, "str", FALSE),
            Prop("rule", TRUE, FALSE, FALSE, "str", FALSE),
            Prop("rationale", TRUE, FALSE, FALSE, "str", FALSE),
            Prop("source", TRUE, FALSE, TRUE, "Responsibility", FALSE)>>),
      MetadataExtensionInformation |-> Entity("ABC", <<Prop("extension_on_line_resource", TRUE, FALSE, FALSE, "OnlineResource", FALSE),
            Prop("extended_element_information", TRUE, FALSE, TRUE, "ExtendedElementInformation", FALSE)>>) ]

ExtensionBody ==
    << Define("__author__", {}),
       FromImport("abc", {"ABC", "abstractmethod"}),
       FromImport("collections.abc", {"Sequence"}),
       FromImport("enum", {"Enum"}),
       FromImport("opengis.metadata.citation", {"Citation", "OnlineResource", "Responsibility"}),
       Define("DatatypeCode", {"Enum"}),
       Define("ObligationCode", {"Enum"}),
       Define("ApplicationSchemaInformation", {"ABC", "property", "abstractmethod", "Citation", "str", "OnlineResource"}),
       Define("ExtendedElementInformation", {"ABC", "property", "abstractmethod", "str", "ObligationCode", "DatatypeCode", "int", "Sequence", "Responsibility"}),
       Define("MetadataExtensionInformation", {"ABC", "property", "abstractmethod", "OnlineResource", "Sequence", "ExtendedElementInformation"}) >>

\* Faulty variant of ExtentEntities: BoundingPolygon declared under ABC.
ExtentEntitiesPolygonDetached ==
    [ GeographicExtent |-> Entity("ABC", <<Prop("extent_type_code", FALSE, FALSE, FALSE, "", FALSE)>>),
      GeographicBoundingBox |-> Entity("GeographicExtent", <<Prop("west_bound_longitude", TRUE, FALSE, FALSE, "float", FALSE),
            Prop("east_bound_longitude", TRUE, FALSE, FALSE, "float", FALSE),
            Prop("south_bound_latitude", TRUE, FALSE, FALSE, "float", FALSE),
            Prop("north_bound_latitude", TRUE, FALSE, FALSE, "float", FALSE)>>),
      GeographicDescription |-> Entity("GeographicExtent", <<Prop("geographic_identifier", TRUE, FALSE, FALSE, "Identifier", FALSE)>>),
      BoundingPolygon |-> Entity("ABC", <<Prop("polygon", FALSE, FALSE, FALSE, "", FALSE)>>),
      VerticalExtent |-> Entity("ABC", <<Prop("minimum_value", TRUE, FALSE, FALSE, "float", FALSE),
            Prop("maximum_value", TRUE, FALSE, FALSE, "float", FALSE),
            Prop("vertical_CRS", FALSE, FALSE, FALSE, "", FALSE)>>),
      TemporalExtent |-> Entity("ABC", <<Prop("extent", FALSE, FALSE, FALSE, "", FALSE)>>),
      SpatialTemporalExtent |-> Entity("TemporalExtent", <<Prop("vertical_extent", TRUE, FALSE, FALSE, "VerticalExtent", FALSE),
            Prop("spatial_extent", TRUE, FALSE, TRUE, "GeographicExtent", FALSE)>>),
      Extent |-> Entity("ABC", <<Prop("description", TRUE, FALSE, FALSE, "str", FALSE),
            Prop("geographic_element", TRUE, FALSE, TRUE, "GeographicExtent", FALSE),
            Prop("temporal_element", TRUE, FALSE, TRUE, "TemporalExtent", FALSE),
            Prop("vertical_element", TRUE, FALSE, TRUE, "VerticalExtent", FALSE)>>) ]
ExtentEntities ==
    [ GeographicExtent |-> Entity("ABC", <<Prop("extent_type_code", FALSE, FALSE, FALSE, "", FALSE)>>),
      GeographicBoundingBox |-> Entity("GeographicExtent", <<Prop("west_bound_longitude", TRUE, FALSE, FALSE, "float", FALSE),
            Prop("east_bound_longitude", TRUE, FALSE, FALSE, "float", FALSE),
            Prop("south_bound_latitude", TRUE, FALSE, FALSE, "float", FALSE),
            Prop("north_bound_latitude", TRUE, FALSE, FALSE, "float", FALSE)>>),
      GeographicDescription |-> Entity("GeographicExtent", <<Prop("geographic_identifier", TRUE, FALSE, FALSE, "Identifier", FALSE)>>),
      BoundingPolygon |-> Entity("GeographicExtent", <<Prop("polygon", FALSE, FALSE, FALSE, "", FALSE)>>),
      VerticalExtent |-> Entity("ABC", <<Prop("minimum_value", TRUE, FALSE, FALSE, "float", FALSE),
            Prop("maximum_value", TRUE, FALSE, FALSE, "float", FALSE),
            Prop("vertical_CRS", FALSE, FALSE, FALSE, "", FALSE)>>),
      TemporalExtent |-> Entity("ABC", <<Prop("extent", FALSE, FALSE, FALSE, "", FALSE)>>),
      SpatialTemporalExtent |-> Entity("TemporalExtent", <<Prop("vertical_extent", TRUE, FALSE, FALSE, "VerticalExtent", FALSE),
            Prop("spatial_extent", TRUE, FALSE, TRUE, "GeographicExtent", FALSE)>>),
      Extent |-> Entity("ABC", <<Prop("description", TRUE, FALSE, FALSE, "str", FALSE),
            Prop("geographic_element", TRUE, FALSE, TRUE, "GeographicExtent", FALSE),
            Prop("temporal_element", TRUE, FALSE, TRUE, "TemporalExtent", FALSE),
            Prop("vertical_element", TRUE, FALSE, TRUE, "VerticalExtent", FALSE)>>) ]

ExtentBody ==
    << Define("__author__", {}),
       FromImport("abc", {"ABC", "abstractmethod"}),
       FromImport("collections.abc", {"Sequence"}),
       FromImport("opengis.metadata.citation", {"Identifier"}),
       Define("GeographicExtent", {"ABC", "property", "abstractmethod"}),
       Define("GeographicBoundingBox", {"GeographicExtent", "property", "abstractmethod", "float"}),
       Define("GeographicDescription", {"GeographicExtent", "property", "abstractmethod", "Identifier"}),
       Define("BoundingPolygon", {"GeographicExtent", "property", "abstractmethod"}),
       Define("VerticalExtent", {"ABC", "property", "abstractmethod", "float"}),
       Define("TemporalExtent", {"ABC", "property", "abstractmethod"}),
       Define("SpatialTemporalExtent", {"TemporalExtent", "property", "abstractmethod", "VerticalExtent", "Sequence", "GeographicExtent"}),
       Define("Extent", {"ABC", "property", "abstractmethod", "str", "Sequence", "GeographicExtent", "TemporalExtent", "VerticalExtent"}) >>

AssociationTypeCode ==
    << <<"CROSS_REFERENCE", "crossReference">>,
       <<"LARGER_WORK_CITATION", "largerWorkCitation">>,
       <<"PART_OF_SEAMLESS_DATABASE", "partOfSeamlessDatabase">>,
       <<"SOURCE", "source">>,
       <<"STEREO_MATE", "stereoMate">>,
       <<"IS_COMPOSED_OF", "isComposedOf">>,
       <<"COLLECTIVE_TITLE", "collectiveTitle">>,
       <<"SERIES", "series">>,
       <<"DEPENDENCY", "dependency">>,
       <<"REVISION_OF", "revisionOf">> >>

InitiativeTypeCode ==
    << <<"CAMPAIGN", "campaign">>,
       <<"COLLECTION", "collection">>,
       <<"EXERCISE", "exercise">>,
       <<"EXPERIMENT", "experiment">>,
       <<"INVESTIGATION", "investigation">>,
       <<"MISSION", "mission">>,
       <<"SENSOR", "sensor">>,
       <<"OPERATION", "operation">>,
       <<"PLATFORM", "platform">>,
       <<"PROCESS", "process">>,
       <<"PROGRAM", "program">>,
       <<"PROJECT", "project">>,
       <<"STUDY", "study">>,
       <<"TASK", "task">>,
       <<"TRIAL", "trial">> >>

KeywordTypeCode ==
    << <<"DISCIPLINE", "discipline">>,
       <<"PLACE", "place">>,
       <<"STRATUM", "stratum">>,
       <<"TEMPORAL", "temporal">>,
       <<"THEME", "theme">>,
       <<"DATA_CENTRE", "dataCentre">>,
       <<"FEATURE_TYPE", "featureType">>,
       <<"INSTRUMENT", "instrument">>,
       <<"PLATFORM", "platform">>,
       <<"PROCESS", "process">>,
       <<"PROJECT", "project">>,
       <<"SERVICE", "service">>,
       <<"PRODUCT", "product">>,
       <<"SUB_TOPIC_CATEGORY", "subTopicCategory">>,
       <<"TAXON", "taxon">> >>

ProgressCode ==
    << <<"COMPLETED", "completed">>,
       <<"HISTORICAL_ARCHIVE", "historicalArchive">>,
       <<"OBSOLETE", "obsolete">>,
       <<"ON_GOING", "onGoing">>,
       <<"PLANNED", "planned">>,
       <<"REQUIRED", "required">>,
       <<"UNDER_DEVELOPMENT", "underDevelopment">>,
       <<"FINAL", "final">>,
       <<"PENDING", "pending">>,
       <<"RETIRED", "retired">>,
       <<"SUPERSEDED", "superseded">>,
       <<"TENTATIVE", "tentative">>,
       <<"VALID", "valid">>,
       <<"ACCEPTED", "accepted">>,
       <<"NOT_ACCEPTED", "notAccepted">>,
       <<"WITHDRAWN", "withdrawn">>,
       <<"PROPOSED", "proposed">>,
       <<"DEPRECATED", "deprecated">> >>

TopicCategoryCode ==
    << <<"FARMING", "farming">>,
       <<"BIOTA", "biota">>,
       <<"BOUNDARIES", "boundaries">>,
       <<"CLIMATOLOGY_METEOROLOGY_ATMOSPHERE", "climatologyMeteorologyAtmosphere">>,
       <<"ECONOMY", "economy">>,
       <<"ELEVATION", "elevation">>,
       <<"ENVIRONMENT", "environment">>,
       <<"SOCIETY", "society">>,
       <<"STRUCTURE", "structure">>,
       <<"TRANSPORTATION", "transportation">>,
       <<"UTILITIES_COMMUNICATION", "utilitiesCommunication">>,
       <<"EXTRA_TERRESTRIAL", "extraTerrestrial">>,
       <<"DISASTER", "disaster">> >>

IdentificationEntities ==
    [ BrowseGraphic |-> Entity("ABC", <<Prop("file_name", FALSE, FALSE, FALSE, "", FALSE),
            Prop("file_description", TRUE, FALSE, FALSE, "str", FALSE),
            Prop("file_type", TRUE, FALSE, FALSE, "str", FALSE),
            Prop("image_constraints", TRUE, FALSE, TRUE, "Constraints", FALSE),
            Prop("linkage", TRUE, FALSE, TRUE, "OnlineResource", FALSE)>>),
      KeywordClass |-> Entity("ABC", <<Prop("class_name", TRUE, FALSE, FALSE, "str", FALSE),
            Prop("concept_identifier", TRUE, TRUE, FALSE, "URI", FALSE),
            Prop("ontology", TRUE, FALSE, FALSE, "Citation", FALSE)>>),
      Keywords |-> Entity("ABC", <<Prop("keyword", TRUE, FALSE, TRUE, "str", FALSE),
            Prop("type", TRUE, TRUE, FALSE, "KeywordTypeCode", FALSE),
            Prop("thesaurus_name", TRUE, TRUE, FALSE, "Citation", FALSE),
            Prop("keyword_class", TRUE, TRUE, FALSE, "KeywordClass", FALSE)>>),
      Usage |-> Entity("ABC", <<Prop("specific_usage", TRUE, FALSE, FALSE, "str", FALSE),
            Prop("usage_date_time", TRUE, TRUE, TRUE, "datetime", FALSE),
            Prop("user_determined_limitations", TRUE, FALSE, FALSE, "str", FALSE),
            Prop("user_contact_info", TRUE, TRUE, TRUE, "Responsibility", FALSE),
            Prop("response", TRUE, TRUE, TRUE, "str", FALSE),
            Prop("additional_documentation", TRUE, TRUE, TRUE, "Citation", FALSE),
            Prop("identified_issues", TRUE, TRUE, TRUE, "Citation", FALSE)>>),
      RepresentativeFraction |-> Entity("ABC", <<Prop("denominator", TRUE, FALSE, FALSE, "int", FALSE)>>),
      Resolution |-> Entity("ABC", <<Prop("equivalent_scale", TRUE, TRUE, FALSE, "RepresentativeFraction", FALSE),
            Prop("distance", TRUE, TRUE, FALSE, "Distance", FALSE),
            Prop("vertical", TRUE, TRUE, FALSE, "Distance", FALSE),
            Prop("angular_distance", TRUE, TRUE, FALSE, "Angle", FALSE),
            Prop("level_of_detail", TRUE, TRUE, FALSE, "str", FALSE)>>),
      AssociatedResource |-> Entity("ABC", <<Prop("name", TRUE, TRUE, FALSE, "Citation", FALSE),
            Prop("association_type", TRUE, FALSE, FALSE, "AssociationTypeCode", FALSE),
            Prop("initiative_type", TRUE, TRUE, FALSE, "InitiativeTypeCode", FALSE),
            Prop("metadata_reference", TRUE, TRUE, FALSE, "Citation", FALSE)>>),
      Identification |-> Entity("ABC", <<Prop("citation", TRUE, FALSE, FALSE, "Citation", FALSE),
            Prop("abstract", TRUE, FALSE, FALSE, "str", FALSE),
            Prop("purpose", TRUE, TRUE, FALSE, "str", FALSE),
            Prop("credit", TRUE, TRUE, TRUE, "str", FALSE),
            Prop("status", TRUE, TRUE, TRUE, "ProgressCode", FALSE),
            Prop("point_of_contact", TRUE, TRUE, TRUE, "Responsibility", FALSE),
            Prop("spatial_representation_type", TRUE, TRUE, TRUE, "SpatialRepresentationTypeCode", FALSE),
            Prop("spatial_resolution", TRUE, TRUE, TRUE, "Resolution", FALSE),
            Prop("temporal_resolution", TRUE, TRUE, TRUE, "timedelta", FALSE),
            Prop("topic_category", TRUE, TRUE, TRUE, "TopicCategoryCode", FALSE),
            Prop("extent", TRUE, TRUE, TRUE, "Extent", FALSE),
            Prop("additional_documentation", TRUE, TRUE, TRUE, "Citation", FALSE),
            Prop("processing_level", TRUE, TRUE, FALSE, "Identifier", FALSE),
            Prop("resource_maintenance", TRUE, TRUE, TRUE, "MaintenanceInformation", FALSE),
            Prop("graphic_overview", TRUE, TRUE, TRUE, "BrowseGraphic", FALSE),
            Prop("resource_format", TRUE, TRUE, TRUE, "Format", FALSE),
            Prop("descriptive_keywords", TRUE, TRUE, TRUE, "Keywords", FALSE),
            Prop("resource_specific_usage", TRUE, TRUE, TRUE, "Usage", FALSE),
            Prop("resource_constraints", TRUE, TRUE, TRUE, "Constraints", FALSE),
            Prop("associated_resource", TRUE, TRUE, TRUE, "AssociatedResource", FALSE)>>),
      DataIdentification |-> Entity("Identification", <<Prop("default_locale", TRUE, TRUE, FALSE, "PT_Locale", FALSE),
            Prop("other_locale", TRUE, TRUE, TRUE, "PT_Locale", FALSE),
            Prop("environment_description", TRUE, TRUE, FALSE, "str", FALSE),
            Prop("supplemental_information", TRUE, TRUE, FALSE, "str", FALSE)>>) ]

IdentificationBody ==
    << Define("__author__", {}),
       FromImport("abc", {"ABC", "abstractmethod"}),
       FromImport("collections.abc", {"Sequence"}),
       FromImport("datetime", {"datetime", "timedelta"}),
       FromImport("enum", {"Enum"}),
       FromImport("typing", {"Optional"}),
       FromImport("opengis.metadata.citation", {"Citation", "Identifier", "OnlineResource", "Responsibility"}),
       FromImport("opengis.metadata.constraints", {"Constraints"}),
       FromImport("opengis.metadata.distribution", {"Format"}),
       FromImport("opengis.metadata.extent", {"Extent"}),
       FromImport("opengis.metadata.maintenance", {"MaintenanceInformation"}),
       FromImport("opengis.metadata.representation", {"SpatialRepresentationTypeCode"}),
       Define("AssociationTypeCode", {"Enum"}),
       Define("InitiativeTypeCode", {"Enum"}),
       Define("KeywordTypeCode", {"Enum"}),
       Define("ProgressCode", {"Enum"}),
       Define("TopicCategoryCode", {"Enum"}),
       Define("BrowseGraphic", {"ABC", "property", "abstractmethod", "str", "Sequence", "Constraints", "OnlineResource"}),
       Define("KeywordClass", {"ABC", "property", "abstractmethod", "str", "Optional", "URI", "Citation"}),
       Define("Keywords", {"ABC", "property", "abstractmethod", "Sequence", "str", "Optional", "KeywordTypeCode", "Citation", "KeywordClass"}),
       Define("Usage", {"ABC", "property", "abstractmethod", "str", "Optional", "Sequence", "datetime", "Responsibility", "Citation"}),
       Define("RepresentativeFraction", {"ABC", "property", "abstractmethod", "int"}),
       Define("Resolution", {"ABC", "property", "abstractmethod", "Optional", "RepresentativeFraction", "Distance", "Angle", "str"}),
       Define("AssociatedResource", {"ABC", "property", "abstractmethod", "Optional", "Citation", "AssociationTypeCode", "InitiativeTypeCode"}),
       Define("Identification", {"ABC", "property", "abstractmethod", "Citation", "str", "Optional", "Sequence", "ProgressCode", "Responsibility", "SpatialRepresentationTypeCode", "Resolution", "timedelta", "TopicCategoryCode", "Extent", "Identifier", "MaintenanceInformation", "BrowseGraphic", "Format", "Keywords", "Usage", "Constraints", "AssociatedResource"}),
       Define("DataIdentification", {"Identification", "property", "abstractmethod", "Optional", "PT_Locale", "Sequence", "str"}) >>

LineageEntities ==
    [ NominalResolution |-> Entity("ABC", <<Prop("scanning_resolution", TRUE, FALSE, FALSE, "measure.Distance", FALSE),
            Prop("ground_resolution", TRUE, FALSE, FALSE, "measure.Distance", FALSE)>>),
      Source |-> Entity("ABC", <<Prop("description", TRUE, TRUE, FALSE, "str", FALSE),
            Prop("source_spatial_resolution", TRUE, TRUE, FALSE, "meta_identification.Resolution", FALSE),
            Prop("source_reference_system", TRUE, TRUE, FALSE, "crs.ReferenceSystem", FALSE),
            Prop("source_citation", TRUE, TRUE, FALSE, "meta_ctitation.Citation", FALSE),
            Prop("source_metadata", TRUE, TRUE, TRUE, "meta_ctitation.Citation", FALSE),
            Prop("scope", TRUE, TRUE, FALSE, "meta_maintenance.Scope", FALSE),
            Prop("source_step", TRUE, TRUE, TRUE, "ProcessStep", FALSE),
            Prop("processed_level", TRUE, TRUE, FALSE, "meta_ctitation.Identifier", FALSE),
            Prop("resolution", TRUE, TRUE, FALSE, "NominalResolution", FALSE)>>),
      Algorithm |-> Entity("ABC", <<Prop("citation", TRUE, FALSE, FALSE, "meta_ctitation.Citation", FALSE),
            Prop("description", TRUE, FALSE, FALSE, "str", FALSE)>>),
      ProcessParameter |-> Entity("ABC", <<Prop("name", TRUE, FALSE, FALSE, "meta_naming.MemberName", FALSE),
            Prop("direction", TRUE, FALSE, FALSE, "meta_service.ParameterDirection", FALSE),
            Prop("description", TRUE, TRUE, FALSE, "str", FALSE),
            Prop("optionality", TRUE, FALSE, FALSE, "bool", FALSE),
            Prop("repeatability", TRUE, FALSE, FALSE, "bool", FALSE),
            Prop("value_type", TRUE, TRUE, FALSE, "meta_naming.RecordType", FALSE),
            Prop("value", TRUE, TRUE, FALSE, "meta_naming.Record", FALSE),
            Prop("resource", TRUE, TRUE, FALSE, "Source", FALSE)>>),
      Processing |-> Entity("ABC", <<Prop("identifier", TRUE, FALSE, FALSE, "meta_ctitation.Identifier", FALSE),
            Prop("software_reference", TRUE, TRUE, TRUE, "meta_ctitation.Citation", FALSE),
            Prop("procedure_description", TRUE, TRUE, FALSE, "str", FALSE),
            Prop("documentation", TRUE, TRUE, TRUE, "meta_ctitation.Citation", FALSE),
            Prop("run_time_parameters", TRUE, TRUE, FALSE, "str", FALSE),
            Prop("other_property", TRUE, TRUE, FALSE, "meta_naming.Record", FALSE),
            Prop("other_property_type", TRUE, TRUE, FALSE, "meta_naming.RecordType", FALSE),
            Prop("algorithm", TRUE, TRUE, TRUE, "Algorithm", FALSE),
            Prop("parameter", TRUE, TRUE, FALSE, "ProcessParameter", FALSE)>>),
      ProcessStepReport |-> Entity("ABC", <<Prop("name", TRUE, FALSE, FALSE, "str", FALSE),
            Prop("description", TRUE, TRUE, FALSE, "str", FALSE),
            Prop("file_type", TRUE, TRUE, FALSE, "str", FALSE)>>),
      ProcessStep |-> Entity("ABC", <<Prop("description", TRUE, FALSE, FALSE, "str", FALSE),
            Prop("rationale", TRUE, TRUE, FALSE, "str", FALSE),
            Prop("step_date_time", TRUE, TRUE, FALSE, "datetime", FALSE),
            Prop("processor", TRUE, TRUE, TRUE, "meta_ctitation.Responsibility", FALSE),
            Prop("reference", TRUE, TRUE, TRUE, "meta_ctitation.Citation", FALSE),
            Prop("scope", TRUE, TRUE, FALSE, "meta_maintenance.Scope", FALSE),
            Prop("source", TRUE, TRUE, TRUE, "Source", FALSE),
            Prop("output", TRUE, TRUE, TRUE, "Source", FALSE),
            Prop("processing_information", TRUE, TRUE, FALSE, "Processing", FALSE),
            Prop("report", TRUE, TRUE, TRUE, "ProcessStepReport", FALSE)>>),
      Lineage |-> Entity("ABC", <<Prop("statement", TRUE, TRUE, FALSE, "str", FALSE),
            Prop("scope", TRUE, TRUE, FALSE, "meta_maintenance.Scope", FALSE),
            Prop("additional_documentation", TRUE, TRUE, TRUE, "meta_ctitation.Citation", FALSE),
            Prop("process_step", TRUE, TRUE, TRUE, "ProcessStep", FALSE),
            Prop("source", TRUE, TRUE, TRUE, "Source", FALSE)>>) ]

LineageBody ==
    << FromImport("__future__", {"annotations"}),
       FromImport("abc", {"ABC", "abstractmethod"}),
       FromImport("collections.abc", {"Sequence"}),
       FromImport("datetime", {"datetime"}),
       ImportAs("opengis.metadata.citation", "meta_ctitation"),
       ImportAs("opengis.metadata.identification", "meta_identification"),
       ImportAs("opengis.metadata.maintenance", "meta_maintenance"),
       ImportAs("opengis.metadata.naming", "meta_naming"),
       ImportAs("opengis.metadata.service", "meta_service"),
       ImportAs("opengis.referencing.crs", "crs"),
       ImportAs("opengis.util.measure", "measure"),
       Define("__author__", {}),
       Define("NominalResolution", {"ABC", "property", "abstractmethod"}),
       Define("Source", {"ABC", "property", "abstractmethod"}),
       Define("Algorithm", {"ABC", "property", "abstractmethod"}),
       Define("ProcessParameter", {"ABC", "property", "abstractmethod"}),
       Define("Processing", {"ABC", "property", "abstractmethod"}),
       Define("ProcessStepReport", {"ABC", "property", "abstractmethod"}),
       Define("ProcessStep", {"ABC", "property", "abstractmethod"}),
       Define("Lineage", {"ABC", "property", "abstractmethod"}) >>

\* Faulty variant of MaintenanceFrequencyCode: BIANNUALLY misspelt with a
\* capital inside the token.
MaintenanceFrequencyCodeMisspelt ==
    << <<"CONTINUAL", "continual">>,
       <<"DAILY", "daily">>,
       <<"WEEKLY", "weekly">>,
       <<"FORTNIGHTLY", "fortnightly">>,
       <<"MONTHLY", "monthly">>,
       <<"QUARTERLY", "quarterly">>,
       <<"BIANNUALLY", "biAnnually">>,
       <<"ANNUALLY", "annually">>,
       <<"AS_NEEDED", "asNeeded">>,
       <<"IRREGULAR", "irregular">>,
       <<"NOT_PLANNED", "notPlanned">>,
       <<"UNKNOWN", "unknown">>,
       <<"PERIODIC", "periodic">>,
       <<"SEMIMONTHLY", "semimonthly">>,
       <<"BIENNIALLY", "biennially">> >>

MaintenanceFrequencyCode ==
    << <<"CONTINUAL", "continual">>,
       <<"DAILY", "daily">>,
       <<"WEEKLY", "weekly">>,
       <<"FORTNIGHTLY", "fortnightly">>,
       <<"MONTHLY", "monthly">>,
       <<"QUARTERLY", "quarterly">>,
       <<"BIANNUALLY", "biannually">>,
       <<"ANNUALLY", "annually">>,
       <<"AS_NEEDED", "asNeeded">>,
       <<"IRREGULAR", "irregular">>,
       <<"NOT_PLANNED", "notPlanned">>,
       <<"UNKNOWN", "unknown">>,
       <<"PERIODIC", "periodic">>,
       <<"SEMIMONTHLY", "semimonthly">>,
       <<"BIENNIALLY", "biennially">> >>

ScopeCode ==
    << <<"COLLECTION_HARDWARE", "collectionHardware">>,
       <<"COLLECTION_SESSION", "collectionSession">>,
       <<"SERIES", "series">>,
       <<"DATASET", "dataset">>,
       <<"NON_GEOGRAPHIC_DATASET", "nonGeographicDataset">>,
       <<"DIMENSION_GROUP", "dimensionGroup">>,
       <<"FEATURE_TYPE", "featureType">>,
       <<"FEATURE", "feature">>,
       <<"ATTRIBUTE_TYPE", "attributeType">>,
       <<"ATTRIBUTE", "attribute">>,
       <<"PROPERTY_TYPE", "propertyType">>,
       <<"FIELD_SESSION", "fieldSession">>,
       <<"SOFTWARE", "software">>,
       <<"SERVICE", "service">>,
       <<"MODEL", "model">>,
       <<"TILE", "tile">>,
       <<"METADATA", "metadata">>,
       <<"INITIATIVE", "initiative">>,
       <<"SAMPLE", "sample">>,
       <<"DOCUMENT", "document">>,
       <<"REPOSITORY", "repository">>,
       <<"AGGREGATE", "aggregate">>,
       <<"PRODUCT", "product">>,
       <<"COLLECTION", "collection">>,
       <<"COVERAGE", "coverage">>,
       <<"APPLICATION", "application">> >>

MaintenanceEntities ==
    [ ScopeDescription |-> Entity("ABC", <<Prop("attributes", TRUE, FALSE, TRUE, "str", FALSE),
            Prop("features", TRUE, FALSE, TRUE, "str", FALSE),
            Prop("feature_instances", TRUE, FALSE, TRUE, "str", FALSE),
            Prop("attribute_instances", TRUE, FALSE, TRUE, "str", FALSE),
            Prop("dataset", TRUE, FALSE, FALSE, "str", FALSE),
            Prop("other", TRUE, FALSE, FALSE, "str", FALSE)>>),
      Scope |-> Entity("ABC", <<Prop("level", TRUE, FALSE, FALSE, "ScopeCode", FALSE),
            Prop("extent", TRUE, FALSE, TRUE, "Extent", FALSE),
            Prop("level_description", TRUE, FALSE, TRUE, "ScopeDescription", FALSE)>>),
      MaintenanceInformation |-> Entity("ABC", <<Prop("maintenance_and_update_frequency", TRUE, TRUE, FALSE, "MaintenanceFrequencyCode", FALSE),
            Prop("maintenance_date", TRUE, TRUE, TRUE, "Date", FALSE),
            Prop("user_defined_maintenance_frequency", TRUE, TRUE, FALSE, "timedelta", FALSE),
            Prop("maintenance_scope", TRUE, TRUE, TRUE, "Scope", FALSE),
            Prop("maintenance_note", TRUE, TRUE, TRUE, "str", FALSE),
            Prop("contact", TRUE, TRUE, TRUE, "Responsibility", FALSE)>>) ]

MaintenanceBody ==
    << Define("__author__", {}),
       FromImport("abc", {"ABC", "abstractmethod"}),
       FromImport("collections.abc", {"Sequence"}),
       FromImport("datetime", {"timedelta"}),
       FromImport("enum", {"Enum"}),
       FromImport("typing", {"Optional"}),
       FromImport("opengis.metadata.citation", {"Date", "Responsibility"}),
       FromImport("opengis.metadata.extent", {"Extent"}),
       Define("MaintenanceFrequencyCode", {"Enum"}),
       Define("ScopeCode", {"Enum"}),
       Define("ScopeDescription", {"ABC", "property", "abstractmethod", "Sequence", "str"}),
       Define("Scope", {"ABC", "property", "abstractmethod", "ScopeCode", "Sequence", "Extent", "ScopeDescription"}),
       Define("MaintenanceInformation", {"ABC", "property", "abstractmethod", "Optional", "MaintenanceFrequencyCode", "Sequence", "Date", "timedelta", "Scope", "str", "Responsibility"}) >>

CellGeometryCode ==
    << <<"POINT", "point">>,
       <<"AREA", "area">>,
       <<"VOXEL", "voxel">>,
       <<"STRATUM", "stratum">> >>

DimensionNameTypeCode ==
    << <<"ROW", "row">>,
       <<"COLUMN", "column">>,
       <<"VERTICAL", "vertical">>,
       <<"TRACK", "track">>,
       <<"CROSS_TRACK", "crossTrack">>,
       <<"LINE", "line">>,
       <<"SAMPLE", "sample">>,
       <<"TIME", "time">> >>

GeometricObjectTypeCode ==
    << <<"COMPLEX", "complex">>,
       <<"COMPOSITE", "composite">>,
       <<"CURVE", "curve">>,
       <<"POINT", "point">>,
       <<"SOLID", "solid">>,
       <<"SURFACE", "surface">> >>

PixelOrientationCode ==
    << <<"CENTRE", "centre">>,
       <<"LOWER_LEFT", "lowerLeft">>,
       <<"LOWER_RIGHT", "lowerRight">>,
       <<"UPPER_RIGHT", "upperRight">>,
       <<"UPPER_LEFT", "upperLeft">> >>

ReferenceSystemTypeCode ==
    << <<"COMPOUND_ENGINEERING_PARAMETRIC", "compoundEngineeringParametric">>,
       <<"COMPOUND_ENGINEERING_PARAMETRIC_TEMPORAL", "compoundEngineeringParametricTemporal">>,
       <<"COMPOUND_ENGINEERING_TEMPORAL", "compoundEngineeringTemporal">>,
       <<"COMPOUND_ENGINEERING_VERTICAL", "compoundEngineeringVertical">>,
       <<"COMPOUND_ENGINEERING_VERTICAL_TEMPORAL", "compoundEngineeringVerticalTemporal">>,
       <<"COMPOUND_GEOGRAPHIC2D_PARAMETRIC", "compoundGeographic2DParametric">>,
       <<"COMPOUND_GEOGRAPHIC2D_PARAMETRIC_TEMPORAL", "compoundGeographic2DParametricTemporal">>,
       <<"COMPOUND_GEOGRAPHIC2D_TEMPORAL", "compoundGeographic2DTemporal">>,
       <<"COMPOUND_GEOGRAPHIC2D_VERTICAL", "compoundGeographic2DVertical">>,
       <<"COMPOUND_GEOGRAPHIC2D_VERTICAL_TEMPORAL", "compoundGeographic2DVerticalTemporal">>,
       <<"COMPOUND_GEOGRAPHIC3D_TEMPORAL", "compoundGeographic3DTemporal">>,
       <<"COMPOUND_PROJECTED2D_PARAMETRIC", "compoundProjected2DParametric">>,
       <<"COMPOUND_PROJECTED2D_PARAMETRIC_TEMPORAL", "compoundProjected2DParametricTemporal">>,
       <<"COMPOUND_PROJECTED_TEMPORAL", "compoundProjectedTemporal">>,
       <<"COMPOUND_PROJECTED_VERTICAL", "compoundProjectedVertical">>,
       <<"COMPOUND_PROJECTED_VERTICAL_TEMPORAL", "compoundProjectedVerticalTemporal">>,
       <<"ENGINEERING", "engineering">>,
       <<"ENGINEERING_DESIGN", "engineeringDesign">>,
       <<"ENGINEERING_IMAGE", "engineeringImage">>,
       <<"GEODETIC_GEOCENTRIC", "geodeticGeocentric">>,
       <<"GEODETIC_GEOGRAPHIC_2D", "geodeticGeographic2D">>,
       <<"GEODETIC_GEOGRAPHIC_3D", "geodeticGeographic3D">>,
       <<"GEOGRAPHIC_IDENTIFIER", "geographicIdentifier">>,
       <<"LINEAR", "linear">>,
       <<"PARAMETRIC", "parametric">>,
       <<"PROJECTED", "projected">>,
       <<"TEMPORAL", "temporal">>,
       <<"VERTICAL", "vertical">> >>

SpatialRepresentationTypeCode ==
    << <<"VECTOR", "vector">>,
       <<"GRID", "grid">>,
       <<"TEXT_TABLE", "textTable">>,
       <<"TIN", "tin">>,
       <<"STEREO_MODEL", "stereoModel">>,
       <<"VIDEO", "video">> >>

TopologyLevelCode ==
    << <<"GEOMETRY_ONLY", "geometryOnly">>,
       <<"TOPOLOGY_1D", "topology1D">>,
       <<"PLANAR_GRAPH", "planarGraph">>,
       <<"FULL_PLANAR_GRAPH", "fullPlanarGraph">>,
       <<"SURFACE_GRAPH", "surfaceGraph">>,
       <<"FULL_SURFACE_GRAPH", "fullSurfaceGraph">>,
       <<"TOPOLOGY_3D", "topology3D">>,
       <<"FULL_TOPOLOGY_3D", "fullTopology3D">>,
       <<"ABSTRACT", "abstract">> >>

RepresentationEntities ==
    [ Dimension |-> Entity("ABC", <<Prop("dimension_name", TRUE, FALSE, FALSE, "DimensionNameTypeCode", FALSE),
            Prop("dimension_size", TRUE, FALSE, FALSE, "int", FALSE),
            Prop("resolution", TRUE, FALSE, FALSE, "float", FALSE),
            Prop("dimension_title", TRUE, FALSE, FALSE, "str", FALSE),
            Prop("dimension_description", TRUE, FALSE, FALSE, "str", FALSE)>>),
      GeolocationInformation |-> Entity("ABC", <<Prop("quality_info", TRUE, TRUE, TRUE, "DataQuality", FALSE)>>),
      GCP |-> Entity("ABC", <<Prop("geographic_coordinates", TRUE, FALSE, FALSE, "DirectPosition", FALSE),
            Prop("accuracy_report", TRUE, TRUE, TRUE, "Element", FALSE)>>),
      GCPCollection |-> Entity("GeolocationInformation", <<Prop("collection_identification", TRUE, FALSE, FALSE, "int", FALSE),
            Prop("collection_name", TRUE, FALSE, FALSE, "str", FALSE),
            Prop("coordinate_reference_system", TRUE, FALSE, FALSE, "ReferenceSystem", FALSE),
            Prop("gcp", TRUE, FALSE, TRUE, "GCP", FALSE)>>),
      GeometricObjects |-> Entity("ABC", <<Prop("geometric_object_type", TRUE, FALSE, FALSE, "GeometricObjectTypeCode", FALSE),
            Prop("geometric_object_count", TRUE, FALSE, FALSE, "int", FALSE)>>),
      SpatialRepresentation |-> Entity("ABC", <<Prop("scope", TRUE, FALSE, FALSE, "Scope", FALSE)>>),
      GridSpatialRepresentation |-> Entity("SpatialRepresentation", <<Prop("number_of_dimensions", TRUE, FALSE, FALSE, "int", FALSE),
            Prop("axis_dimension_properties", TRUE, FALSE, TRUE, "Dimension", FALSE),
            Prop("cell_geometry", TRUE, FALSE, FALSE, "CellGeometryCode", FALSE),
            Prop("transformation_parameter_availability", FALSE, FALSE, FALSE, "", FALSE)>>),
      VectorSpatialRepresentation |-> Entity("SpatialRepresentation", <<Prop("topology_level", TRUE, TRUE, FALSE, "TopologyLevelCode", FALSE),
            Prop("geometric_objects", TRUE, TRUE, TRUE, "GeometricObjects", FALSE)>>),
      Georectified |-> Entity("GridSpatialRepresentation", <<Prop("check_point_availability", FALSE, FALSE, FALSE, "", FALSE),
            Prop("check_point_description", TRUE, TRUE, FALSE, "str", FALSE),
            Prop("corner_points", TRUE, TRUE, TRUE, "GM_Point", FALSE),
            Prop("centre_point", TRUE, TRUE, FALSE, "GM_Point", FALSE),
            Prop("point_in_pixel", TRUE, FALSE, FALSE, "PixelOrientationCode", FALSE),
            Prop("transformation_dimension_description", TRUE, TRUE, FALSE, "str", FALSE),
            Prop("transformation_dimension_mapping", TRUE, TRUE, TRUE, "str", FALSE),
            Prop("check_point", TRUE, TRUE, TRUE, "GCP", FALSE)>>),
      Georeferenceable |-> Entity("GridSpatialRepresentation", <<Prop("control_point_availability", TRUE, FALSE, FALSE, "bool", FALSE),
            Prop("orientation_parameter_availability", TRUE, FALSE, FALSE, "bool", FALSE),
            Prop("orientation_parameter_description", TRUE, TRUE, FALSE, "str", FALSE),
            Prop("georeferenced_parameters", TRUE, FALSE, FALSE, "Record", FALSE),
            Prop("parameter_citation", TRUE, TRUE, TRUE, "Citation", FALSE),
            Prop("geolocation_information", TRUE, FALSE, TRUE, "GeolocationInformation", FALSE)>>) ]

RepresentationBody ==
    << Define("__author__", {}),
       FromImport("abc", {"ABC", "abstractmethod"}),
       FromImport("collections.abc", {"Sequence"}),
       FromImport("enum", {"Enum"}),
       FromImport("typing", {"Optional"}),
       FromImport("opengis.metadata.citation", {"Citation"}),
       FromImport("opengis.metadata.maintenance", {"Scope"}),
       FromImport("opengis.metadata.naming", {"Record"}),
       FromImport("opengis.metadata.quality", {"DataQuality", "Element"}),
       FromImport("opengis.referencing.crs", {"ReferenceSystem"}),
       Define("CellGeometryCode", {"Enum"}),
       Define("DimensionNameTypeCode", {"Enum"}),
       Define("GeometricObjectTypeCode", {"Enum"}),
       Define("PixelOrientationCode", {"Enum"}),
       Define("ReferenceSystemTypeCode", {"Enum"}),
       Define("SpatialRepresentationTypeCode", {"Enum"}),
       Define("TopologyLevelCode", {"Enum"}),
       Define("Dimension", {"ABC", "property", "abstractmethod", "DimensionNameTypeCode", "int", "float", "str"}),
       Define("GeolocationInformation", {"ABC", "property", "abstractmethod", "Optional", "Sequence", "DataQuality"}),
       Define("GCP", {"ABC", "property", "abstractmethod", "DirectPosition", "Optional", "Sequence", "Element"}),
       Define("GCPCollection", {"GeolocationInformation", "property", "abstractmethod", "int", "str", "ReferenceSystem", "Sequence", "GCP"}),
       Define("GeometricObjects", {"ABC", "property", "abstractmethod", "GeometricObjectTypeCode", "int"}),
       Define("SpatialRepresentation", {"ABC", "property", "abstractmethod", "Scope"}),
       Define("GridSpatialRepresentation", {"SpatialRepresentation", "property", "abstractmethod", "int", "Sequence", "Dimension", "CellGeometryCode"}),
       Define("VectorSpatialRepresentation", {"SpatialRepresentation", "property", "abstractmethod", "Optional", "TopologyLevelCode", "Sequence", "GeometricObjects"}),
       Define("Georectified", {"GridSpatialRepresentation", "property", "abstractmethod", "Optional", "str", "Sequence", "GM_Point", "PixelOrientationCode", "GCP"}),
       Define("Georeferenceable", {"GridSpatialRepresentation", "property", "abstractmethod", "bool", "Optional", "str", "Record", "Sequence", "Citation", "GeolocationInformation"}) >>

CouplingType ==
    << <<"LOOSE", "loose">>,
       <<"MIXED", "mixed">>,
       <<"TIGHT", "tight">> >>

\* Faulty variant of DCPList: the tokens written in lower case.
DCPListLowerCase ==
    << <<"XML", "xml">>,
       <<"CORBA", "corba">>,
       <<"JAVA", "java">>,
       <<"COM", "com">>,
       <<"SQL", "sql">>,
       <<"SOAP", "soap">>,
       <<"Z3950", "z3950">>,
       <<"HTTP", "http">>,
       <<"FTP", "ftp">>,
       <<"WEB_SERVICES", "WebServices">> >>

DCPList ==
    << <<"XML", "XML">>,
       <<"CORBA", "CORBA">>,
       <<"JAVA", "JAVA">>,
       <<"COM", "COM">>,
       <<"SQL", "SQL">>,
       <<"SOAP", "SOAP">>,
       <<"Z3950", "Z3950">>,
       <<"HTTP", "HTTP">>,
       <<"FTP", "FTP">>,
       <<"WEB_SERVICES", "WebServices">> >>

ServiceEntities ==
    [ OperationMetadata |-> Entity("ABC", <<Prop("operation_name", TRUE, FALSE, FALSE, "str", FALSE),
            Prop("distributed_computing_platform", TRUE, FALSE, TRUE, "DCPList", FALSE),
            Prop("operation_description", TRUE, FALSE, FALSE, "str", FALSE),
            Prop("invocation_name", TRUE, FALSE, FALSE, "str", FALSE),
            Prop("connect_point", TRUE, FALSE, TRUE, "OnlineResource", FALSE),
            Prop("parameter", FALSE, FALSE, FALSE, "", FALSE),
            Prop("depends_on", TRUE, FALSE, TRUE, "OperationMetadata", TRUE)>>),
      OperationChainMetadata |-> Entity("ABC", <<Prop("name", TRUE, FALSE, FALSE, "str", FALSE),
            Prop("description", TRUE, FALSE, FALSE, "str", FALSE),
            Prop("operation", TRUE, FALSE, TRUE, "OperationMetadata", FALSE)>>),
      CoupledResource |-> Entity("ABC", <<Prop("scoped_name", TRUE, FALSE, FALSE, "ScopedName", FALSE),
            Prop("resource_reference", TRUE, FALSE, TRUE, "Citation", FALSE),
            Prop("operation", TRUE, FALSE, FALSE, "OperationMetadata", FALSE),
            Prop("resource", TRUE, FALSE, TRUE, "DataIdentification", FALSE)>>),
      ServiceIdentification |-> Entity("Identification", <<Prop("service_type", TRUE, FALSE, FALSE, "GenericName", FALSE),
            Prop("service_type_version", TRUE, FALSE, TRUE, "str", FALSE),
            Prop("access_properties", TRUE, FALSE, FALSE, "StandardOrderProcess", FALSE),
            Prop("coupling_type", TRUE, FALSE, FALSE, "CouplingType", FALSE),
            Prop("coupled_resource", TRUE, FALSE, TRUE, "CoupledResource", FALSE),
            Prop("operated_dataset", TRUE, FALSE, TRUE, "Citation", FALSE),
            Prop("profile", TRUE, FALSE, TRUE, "Citation", FALSE),
            Prop("service_standard", TRUE, FALSE, TRUE, "Citation", FALSE),
            Prop("contains_operations", TRUE, FALSE, TRUE, "OperationMetadata", FALSE),
            Prop("operates_on", TRUE, FALSE, TRUE, "DataIdentification", FALSE),
            Prop("contains_chain", TRUE, FALSE, TRUE, "OperationChainMetadata", FALSE)>>) ]

ServiceBody ==
    << Define("__author__", {}),
       FromImport("abc", {"ABC", "abstractmethod"}),
       FromImport("collections.abc", {"Sequence"}),
       FromImport("enum", {"Enum"}),
       FromImport("opengis.metadata.citation", {"Citation", "OnlineResource"}),
       FromImport("opengis.metadata.distribution", {"StandardOrderProcess"}),
       FromImport("opengis.metadata.identification", {"DataIdentification", "Identification"}),
       FromImport("opengis.metadata.naming", {"GenericName", "ScopedName"}),
       Define("CouplingType", {"Enum"}),
       Define("DCPList", {"Enum"}),
       Define("OperationMetadata", {"ABC", "property", "abstractmethod", "str", "Sequence", "DCPList", "OnlineResource"}),
       Define("OperationChainMetadata", {"ABC", "property", "abstractmethod", "str", "Sequence", "OperationMetadata"}),
       Define("CoupledResource", {"ABC", "property", "abstractmethod", "ScopedName", "Sequence", "Citation", "OperationMetadata", "DataIdentification"}),
       Define("ServiceIdentification", {"Identification", "property", "abstractmethod", "GenericName", "Sequence", "str", "StandardOrderProcess", "CouplingType", "CoupledResource", "Citation", "OperationMetadata", "DataIdentification", "OperationChainMetadata"}) >>

\* Faulty variant of CrsEntities: ProjectedCRS.base_crs widened to
\* ReferenceSystem.
CrsEntitiesWidened ==
    [ ReferenceSystem |-> Entity("IdentifiedObject", <<Prop("domain_of_validity", TRUE, FALSE, FALSE, "Extent", FALSE),
            Prop("scope", TRUE, FALSE, FALSE, "str", FALSE)>>),
      CoordinateReferenceSystem |-> Entity("ReferenceSystem", <<>>),
      SingleCRS |-> Entity("CoordinateReferenceSystem", <<Prop("coordinate_system", TRUE, FALSE, FALSE, "CoordinateSystem", FALSE),
            Prop("datum", TRUE, FALSE, FALSE, "Datum", FALSE)>>),
      CompoundCRS |-> Entity("CoordinateReferenceSystem", <<Prop("components", TRUE, FALSE, TRUE, "SingleCRS", FALSE)>>),
      VerticalCRS |-> Entity("SingleCRS", <<Prop("coordinate_system", TRUE, FALSE, FALSE, "VerticalCS", FALSE),
            Prop("datum", TRUE, FALSE, FALSE, "VerticalDatum", FALSE)>>),
      TemporalCRS |-> Entity("SingleCRS", <<Prop("coordinate_system", TRUE, FALSE, FALSE, "TimeCS", FALSE),
            Prop("datum", TRUE, FALSE, FALSE, "TemporalDatum", FALSE)>>),
      EngineeringCRS |-> Entity("SingleCRS", <<Prop("datum", TRUE, FALSE, FALSE, "EngineeringDatum", FALSE)>>),
      DerivedCRS |-> Entity("SingleCRS", <<Prop("base_crs", TRUE, FALSE, FALSE, "CoordinateReferenceSystem", FALSE),
            Prop("conversion_from_base", FALSE, FALSE, FALSE, "", FALSE)>>),
      GeodeticCRS |-> Entity("SingleCRS", <<Prop("datum", TRUE, FALSE, FALSE, "GeodeticDatum", FALSE)>>),
      GeographicCRS |-> Entity("GeodeticCRS", <<Prop("coordinate_system", TRUE, FALSE, FALSE, "EllipsoidalCS", FALSE)>>),
      ProjectedCRS |-> Entity("DerivedCRS", <<Prop("conversion_from_base", FALSE, FALSE, FALSE, "", FALSE),
            Prop("base_crs", TRUE, FALSE, FALSE, "ReferenceSystem", FALSE),
            Prop("coordinate_system", TRUE, FALSE, FALSE, "CartesianCS", FALSE),
            Prop("datum", TRUE, FALSE, FALSE, "GeodeticDatum", FALSE)>>) ]
CrsEntities ==
    [ ReferenceSystem |-> Entity("IdentifiedObject", <<Prop("domain_of_validity", TRUE, FALSE, FALSE, "Extent", FALSE),
            Prop("scope", TRUE, FALSE, FALSE, "str", FALSE)>>),
      CoordinateReferenceSystem |-> Entity("ReferenceSystem", <<>>),
      SingleCRS |-> Entity("CoordinateReferenceSystem", <<Prop("coordinate_system", TRUE, FALSE, FALSE, "CoordinateSystem", FALSE),
            Prop("datum", TRUE, FALSE, FALSE, "Datum", FALSE)>>),
      CompoundCRS |-> Entity("CoordinateReferenceSystem", <<Prop("components", TRUE, FALSE, TRUE, "SingleCRS", FALSE)>>),
      VerticalCRS |-> Entity("SingleCRS", <<Prop("coordinate_system", TRUE, FALSE, FALSE, "VerticalCS", FALSE),
            Prop("datum", TRUE, FALSE, FALSE, "VerticalDatum", FALSE)>>),
      TemporalCRS |-> Entity("SingleCRS", <<Prop("coordinate_system", TRUE, FALSE, FALSE, "TimeCS", FALSE),
            Prop("datum", TRUE, FALSE, FALSE, "TemporalDatum", FALSE)>>),
      EngineeringCRS |-> Entity("SingleCRS", <<Prop("datum", TRUE, FALSE, FALSE, "EngineeringDatum", FALSE)>>),
      DerivedCRS |-> Entity("SingleCRS", <<Prop("base_crs", TRUE, FALSE, FALSE, "CoordinateReferenceSystem", FALSE),
            Prop("conversion_from_base", FALSE, FALSE, FALSE, "", FALSE)>>),
      GeodeticCRS |-> Entity("SingleCRS", <<Prop("datum", TRUE, FALSE, FALSE, "GeodeticDatum", FALSE)>>),
      GeographicCRS |-> Entity("GeodeticCRS", <<Prop("coordinate_system", TRUE, FALSE, FALSE, "EllipsoidalCS", FALSE)>>),
      ProjectedCRS |-> Entity("DerivedCRS", <<Prop("conversion_from_base", FALSE, FALSE, FALSE, "", FALSE),
            Prop("base_crs", TRUE, FALSE, FALSE, "GeographicCRS", FALSE),
            Prop("coordinate_system", TRUE, FALSE, FALSE, "CartesianCS", FALSE),
            Prop("datum", TRUE, FALSE, FALSE, "GeodeticDatum", FALSE)>>) ]

CrsBody ==
    << Define("__author__", {}),
       FromImport("abc", {"abstractmethod"}),
       FromImport("collections.abc", {"Sequence"}),
       FromImport("opengis.referencing.cs", {"CartesianCS", "CoordinateSystem", "EllipsoidalCS", "TimeCS", "VerticalCS"}),
       FromImport("opengis.referencing.datum", {"Datum", "EngineeringDatum", "GeodeticDatum", "IdentifiedObject", "TemporalDatum", "VerticalDatum"}),
       FromImport("opengis.metadata.extent", {"Extent"}),
       Define("ReferenceSystem", {"IdentifiedObject", "property", "abstractmethod", "Extent", "str"}),
       Define("CoordinateReferenceSystem", {"ReferenceSystem"}),
       Define("SingleCRS", {"CoordinateReferenceSystem", "property", "abstractmethod", "CoordinateSystem", "Datum"}),
       Define("CompoundCRS", {"CoordinateReferenceSystem", "property", "abstractmethod", "Sequence", "SingleCRS"}),
       Define("VerticalCRS", {"SingleCRS", "property", "abstractmethod", "VerticalCS", "VerticalDatum"}),
       Define("TemporalCRS", {"SingleCRS", "property", "abstractmethod", "TimeCS", "TemporalDatum"}),
       Define("EngineeringCRS", {"SingleCRS", "property", "abstractmethod", "EngineeringDatum"}),
       Define("DerivedCRS", {"SingleCRS", "property", "abstractmethod", "CoordinateReferenceSystem"}),
       Define("GeodeticCRS", {"SingleCRS", "property", "abstractmethod", "GeodeticDatum"}),
       Define("GeographicCRS", {"GeodeticCRS", "property", "abstractmethod", "EllipsoidalCS"}),
       Define("ProjectedCRS", {"DerivedCRS", "property", "abstractmethod", "GeographicCRS", "CartesianCS", "GeodeticDatum"}) >>

PrimitiveEntities ==
    [ DirectPosition |-> Entity("ABC", <<Prop("coordinate_reference_system", TRUE, FALSE, FALSE, "CoordinateReferenceSystem", FALSE),
            Prop("dimension", TRUE, FALSE, FALSE, "int", FALSE)>>) ]

PrimitiveBody ==
    << Define("__author__", {}),
       FromImport("abc", {"ABC", "abstractmethod"}),
       FromImport("opengis.referencing.crs", {"CoordinateReferenceSystem"}),
       Define("DirectPosition", {"ABC", "property", "abstractmethod", "CoordinateReferenceSystem", "int"}) >>

(***************************************************************************)
(* The modules of the source set and their bodies.  Every other module     *)
(* (the standard library, and opengis.metadata.naming, .quality,           *)
(* opengis.referencing.cs, .datum, opengis.util.measure, which are not in  *)
(* the source set) is a leaf: it loads and provides any name asked of it.  *)
(***************************************************************************)
ModuleBody ==
    [ m \in { "opengis.metadata", "opengis.metadata.citation",
              "opengis.metadata.constraints", "opengis.metadata.content",
              "opengis.metadata.distribution", "opengis.metadata.extension",
              "opengis.metadata.extent", "opengis.metadata.identification",
              "opengis.metadata.lineage", "opengis.metadata.maintenance",
              "opengis.metadata.representation", "opengis.metadata.service",
              "opengis.referencing.crs", "opengis.geometry.primitive" } |->
        CASE m = "opengis.metadata"                -> MetadataBody
          [] m = "opengis.metadata.citation"       -> CitationBody
          [] m = "opengis.metadata.constraints"    -> ConstraintsBody
          [] m = "opengis.metadata.content"        -> ContentBody
          [] m = "opengis.metadata.distribution"   -> DistributionBody
          [] m = "opengis.metadata.extension"      -> ExtensionBody
          [] m = "opengis.metadata.extent"         -> ExtentBody
          [] m = "opengis.metadata.identification" -> IdentificationBody
          [] m = "opengis.metadata.lineage"        -> LineageBody
          [] m = "opengis.metadata.maintenance"    -> MaintenanceBody
          [] m = "opengis.metadata.representation" -> RepresentationBody
          [] m = "opengis.metadata.service"        -> ServiceBody
          [] m = "opengis.referencing.crs"         -> CrsBody
          [] m = "opengis.geometry.primitive"      -> PrimitiveBody ]

SourceModules == DOMAIN ModuleBody

\* The package whose __init__ runs before a submodule is loaded.  Only
\* opengis/metadata has an __init__.py; opengis, opengis.referencing and
\* opengis.geometry are namespace packages with no body.
Package(m) ==
    IF m \in SourceModules \ {"opengis.metadata", "opengis.referencing.crs",
                              "opengis.geometry.primitive"}
    THEN "opengis.metadata" ELSE None

\* Names every module body can use without binding them.
Builtins == {"str", "int", "float", "bool", "property"}

VARIABLES
    \* --- import machinery ---
    sys_modules,   \* source module -> "absent" | "partial" | "loaded"
    stack,         \* the modules whose bodies are being executed, innermost last
    pc,            \* source module -> index of its next statement
    namespace,     \* source module -> the names bound in it so far
    request,       \* the module a client asked for, or None
    raised,        \* the exception that ended the last request, or None
    nImports,      \* top-level requests made so far
    \* --- a client encoding and decoding code list members ---
    cl,            \* the code list in use, or None
    sym,           \* the symbolic name the client wrote (E.NAME), or None
    member,        \* the member that name denotes, or None
    tok,           \* the external token read from the member, or None
    dec,           \* the member decoded from the token, "ValueError", or None
    other,         \* the outcome of decoding tok in another code list
    \* --- one concrete subclass of an entity class and its instance ---
    cls,           \* the entity class subclassed, or None
    impl,          \* the properties the subclass implements
    present,       \* the properties that return a value other than None
    foreign,       \* those of them whose value is no member of the declared code list
    held,          \* the number each float-typed one of them returns
    phase,         \* "none" | "defined" | "building" | "constructed" | "failed"
    outcome,       \* what the last operation on the instance gave
    \* --- a client inspecting the declarations ---
    hint,          \* the return annotation under inspection, or NoHint
    \* --- a client of the abbreviation tables ---
    loaded,        \* the body of opengis/metadata/__init__.py has been executed
    tables,        \* table name -> the list object bound to that name
    found,         \* the last lookup: table, abbreviation and the terms found
    nEdits,        \* operations applied to the lists so far
    \* --- a producer and a reader of Georectified.corner_points ---
    returned,      \* what the getter of the concrete subclass returns
    exposed        \* the outcome of the last read of corner_points

importVars == <<sys_modules, stack, pc, namespace, request, raised, nImports>>
codecVars == <<cl, sym, member, tok, dec, other>>
entityVars == <<cls, impl, present, foreign, held, phase, outcome>>
typeVars == <<hint>>
tableVars == <<loaded, tables, found, nEdits>>
gridVars == <<returned, exposed>>
vars == <<importVars, codecVars, entityVars, typeVars, tableVars, gridVars>>

\* An exception: its type, the name that could not be had, the module asked
\* for it, the module whose statement raised, and the traceback (the module
\* bodies under execution, outermost first).
NoError ==
    [type |-> None, name |-> None, module |-> None, importer |-> None,
     traceback |-> << >>]

ImportInit ==
    /\ sys_modules = [m \in SourceModules |-> "absent"]
    /\ stack = << >>
    /\ pc = [m \in SourceModules |-> 1]
    /\ namespace = [m \in SourceModules |-> {}]
    /\ request = None
    /\ raised = NoError
    /\ nImports = 0

\* The module object is created, entered in sys.modules, and its body starts.
BeginLoad(m) ==
    /\ sys_modules' = [sys_modules EXCEPT ![m] = "partial"]
    /\ stack' = Append(stack, m)
    /\ pc' = [pc EXCEPT ![m] = 1]
    /\ namespace' = [namespace EXCEPT ![m] = {}]

\* An exception leaves every body on the stack: each of these modules is
\* removed from sys.modules, and the client's request ends with the error.
Unwind(err) ==
    /\ sys_modules' = [m \in SourceModules |->
                          IF \E i \in 1..Len(stack) : stack[i] = m
                          THEN "absent" ELSE sys_modules[m]]
    /\ stack' = << >>
    /\ request' = None
    /\ raised' = err
    /\ UNCHANGED <<pc, namespace, nImports>>

\* What a module must be loaded for before `target` itself is looked at.
NeedsPackage(target) ==
    /\ Package(target) # None
    /\ sys_modules[Package(target)] = "absent"

\* `from target import names` finds the module in sys.modules: the names it
\* can hand over are the ones its body has bound so far.
CanProvide(target, names) ==
    \/ target \notin SourceModules
    \/ names \subseteq namespace[target]

\* `import target as alias` binds whatever sys.modules holds for target,
\* partially initialised or not.
CanProvideModule(target) == TRUE

\* A client imports module m.
Import(m) ==
    /\ request = None
    /\ stack = << >>
    /\ nImports < MaxImports
    /\ sys_modules[m] = "absent"
    /\ request' = m
    /\ raised' = NoError
    /\ nImports' = nImports + 1
    /\ UNCHANGED <<sys_modules, stack, pc, namespace>>
    /\ UNCHANGED <<codecVars, entityVars, typeVars, tableVars, gridVars>>

\* The import system serves the client's request: the package first, then
\* the module, and the request is done once the module is loaded.
ServeRequest ==
    /\ request # None
    /\ stack = << >>
    /\ IF NeedsPackage(request)
       THEN BeginLoad(Package(request)) /\ UNCHANGED <<request, raised, nImports>>
       ELSE IF sys_modules[request] = "absent"
       THEN BeginLoad(request) /\ UNCHANGED <<request, raised, nImports>>
       ELSE /\ request' = None
            /\ UNCHANGED <<sys_modules, stack, pc, namespace, raised, nImports>>
    /\ UNCHANGED <<codecVars, entityVars, typeVars, tableVars, gridVars>>

\* The innermost body executes its next import statement.
ExecImport ==
    /\ stack # << >>
    /\ LET m == stack[Len(stack)] IN
       /\ pc[m] <= Len(ModuleBody[m])
       /\ LET s == ModuleBody[m][pc[m]] IN
          /\ s.kind \in {"from", "import"}
          /\ IF s.module \in SourceModules /\ NeedsPackage(s.module)
             THEN BeginLoad(Package(s.module)) /\ UNCHANGED <<request, raised, nImports>>
             ELSE IF s.module \in SourceModules /\ sys_modules[s.module] = "absent"
             THEN BeginLoad(s.module) /\ UNCHANGED <<request, raised, nImports>>
             ELSE IF (s.kind = "from" /\ CanProvide(s.module, s.names))
                     \/ (s.kind = "import" /\ CanProvideModule(s.module))
             THEN /\ namespace' = [namespace EXCEPT ![m] = @ \cup s.names]
                  /\ pc' = [pc EXCEPT ![m] = @ + 1]
                  /\ UNCHANGED <<sys_modules, stack, request, raised, nImports>>
             ELSE Unwind([type |-> "ImportError",
                          name |-> CHOOSE n \in s.names : n \notin namespace[s.module],
                          module |-> s.module, importer |-> m,
                          traceback |-> stack])
    /\ UNCHANGED <<codecVars, entityVars, typeVars, tableVars, gridVars>>

\* The innermost body executes its next class statement or assignment.
ExecDefine ==
    /\ stack # << >>
    /\ LET m == stack[Len(stack)] IN
       /\ pc[m] <= Len(ModuleBody[m])
       /\ LET s == ModuleBody[m][pc[m]] IN
          /\ s.kind = "def"
          /\ IF s.uses \subseteq namespace[m] \cup Builtins
             THEN /\ namespace' = [namespace EXCEPT ![m] = @ \cup s.names]
                  /\ pc' = [pc EXCEPT ![m] = @ + 1]
                  /\ UNCHANGED <<sys_modules, stack, request, raised, nImports>>
             ELSE Unwind([type |-> "NameError",
                          name |-> CHOOSE n \in s.uses : n \notin namespace[m] \cup Builtins,
                          module |-> m, importer |-> m,
                          traceback |-> stack])
    /\ UNCHANGED <<codecVars, entityVars, typeVars, tableVars, gridVars>>

\* The innermost body reaches its end: the module is fully loaded.
EndLoad ==
    /\ stack # << >>
    /\ LET m == stack[Len(stack)] IN
       /\ pc[m] > Len(ModuleBody[m])
       /\ sys_modules' = [sys_modules EXCEPT ![m] = "loaded"]
       /\ stack' = SubSeq(stack, 1, Len(stack) - 1)
       /\ UNCHANGED <<pc, namespace, request, raised, nImports>>
    /\ UNCHANGED <<codecVars, entityVars, typeVars, tableVars, gridVars>>

(***************************************************************************)
(* Code lists: what Python's Enum does with the tables above.              *)
(***************************************************************************)
CodeLists ==
    [ DateTypeCode |-> DateTypeCode, OnLineFunctionCode |-> OnLineFunctionCode, PresentationFormCode |-> PresentationFormCode,
      RoleCode |-> RoleCode, TelephoneTypeCode |-> TelephoneTypeCode, ClassificationCode |-> ClassificationCode,
      RestrictionCode |-> RestrictionCode, BandDefinition |-> BandDefinition, CoverageContentTypeCode |-> CoverageContentTypeCode,
      ImagingConditionCode |-> ImagingConditionCode, PolarisationOrientationCode |-> PolarisationOrientationCode, TransferFunctionTypeCode |-> TransferFunctionTypeCode,
      MediumFormatCode |-> MediumFormatCode, DatatypeCode |-> DatatypeCode, ObligationCode |-> ObligationCode,
      AssociationTypeCode |-> AssociationTypeCode, InitiativeTypeCode |-> InitiativeTypeCode, KeywordTypeCode |-> KeywordTypeCode,
      ProgressCode |-> ProgressCode, TopicCategoryCode |-> TopicCategoryCode, MaintenanceFrequencyCode |-> MaintenanceFrequencyCode,
      ScopeCode |-> ScopeCode, CellGeometryCode |-> CellGeometryCode, DimensionNameTypeCode |-> DimensionNameTypeCode,
      GeometricObjectTypeCode |-> GeometricObjectTypeCode, PixelOrientationCode |-> PixelOrientationCode, ReferenceSystemTypeCode |-> ReferenceSystemTypeCode,
      SpatialRepresentationTypeCode |-> SpatialRepresentationTypeCode, TopologyLevelCode |-> TopologyLevelCode, CouplingType |-> CouplingType,
      DCPList |-> DCPList ]

CodeListNames == DOMAIN CodeLists

\* The symbolic names written in the body of code list E.
Names(E) == { CodeLists[E][i][1] : i \in 1..Len(CodeLists[E]) }

\* Index of the declaration of symbolic name n in E.
IndexOf(E, n) == CHOOSE i \in 1..Len(CodeLists[E]) : CodeLists[E][i][1] = n

\* Enum makes a second name with an already used value an alias of the first
\* member with that value: the member a name denotes is the first
\* declaration carrying the same value.
Member(E, n) ==
    LET v == CodeLists[E][IndexOf(E, n)][2]
        first == CHOOSE i \in 1..Len(CodeLists[E]) :
                    /\ CodeLists[E][i][2] = v
                    /\ \A j \in 1..(i - 1) : CodeLists[E][j][2] # v
    IN  CodeLists[E][first][1]

\* The members of E (aliases are names, not members).
Members(E) == { Member(E, n) : n \in Names(E) }

\* member.value: the external token of the member named m.
Value(E, m) == CodeLists[E][IndexOf(E, m)][2]

\* E(token): the member carrying the token, or ValueError.
Lookup(E, token) ==
    IF \E i \in 1..Len(CodeLists[E]) : CodeLists[E][i][2] = token
    THEN Member(E, CodeLists[E][CHOOSE i \in 1..Len(CodeLists[E]) :
                                   CodeLists[E][i][2] = token][1])
    ELSE "ValueError"

NotDecoded == [cl |-> None, member |-> None]

CodecInit ==
    /\ cl = None
    /\ sym = None
    /\ member = None
    /\ tok = None
    /\ dec = None
    /\ other = NotDecoded

\* The client evaluates E.NAME.
Select(E, n) ==
    /\ cl = None
    /\ cl' = E
    /\ sym' = n
    /\ member' = Member(E, n)
    /\ UNCHANGED <<tok, dec, other>>
    /\ UNCHANGED <<importVars, entityVars, typeVars, tableVars, gridVars>>

\* The client reads member.value.
Encode ==
    /\ member # None
    /\ tok = None
    /\ tok' = Value(cl, member)
    /\ UNCHANGED <<cl, sym, member, dec, other>>
    /\ UNCHANGED <<importVars, entityVars, typeVars, tableVars, gridVars>>

\* The client evaluates E(token) within the same code list.
Decode ==
    /\ tok # None
    /\ dec = None
    /\ dec' = Lookup(cl, tok)
    /\ UNCHANGED <<cl, sym, member, tok, other>>
    /\ UNCHANGED <<importVars, entityVars, typeVars, tableVars, gridVars>>

\* Faulty variant of SameMember: members compared by their values.
SameMemberByValue(E, m, F, n) == Value(E, m) = Value(F, n)

\* E.m == F.n: every code list derives from Enum alone, whose members are
\* equal only to themselves; a member is one name of one code list.
SameMember(E, m, F, n) == E = F /\ m = n

\* The client evaluates F(token) in a code list F other than the one the
\* token was taken from.
DecodeElsewhere(F) ==
    /\ tok # None
    /\ other.cl = None
    /\ F # cl
    /\ other' = [cl |-> F, member |-> Lookup(F, tok)]
    /\ UNCHANGED <<cl, sym, member, tok, dec>>
    /\ UNCHANGED <<importVars, entityVars, typeVars, tableVars, gridVars>>

\* The client drops its references.
Release ==
    /\ dec # None
    /\ cl' = None
    /\ sym' = None
    /\ member' = None
    /\ tok' = None
    /\ dec' = None
    /\ other' = NotDecoded
    /\ UNCHANGED <<importVars, entityVars, typeVars, tableVars, gridVars>>

(***************************************************************************)
(* Entity interfaces: the class hierarchy and Python's attribute lookup.   *)
(***************************************************************************)
Entities ==
    CitationEntities @@ ConstraintsEntities @@ ContentEntities @@
    DistributionEntities @@ ExtensionEntities @@ ExtentEntities @@
    IdentificationEntities @@ LineageEntities @@ MaintenanceEntities @@
    RepresentationEntities @@ ServiceEntities @@ CrsEntities @@
    PrimitiveEntities

ClassNames == DOMAIN Entities

\* Faulty variant of Base: CompoundCRS declared under SingleCRS.
BaseCompoundUnderSingle(c) ==
    IF c = "CompoundCRS" THEN "SingleCRS" ELSE Entities[c].base

\* The base class written in the class statement of c.
Base(c) == Entities[c].base

\* The classes of the source whose class statement names c as base.
Subclasses(c) == { k \in ClassNames : Base(k) = c }

\* The names bound as properties in the body of c itself.
OwnProperties(c) ==
    { Entities[c].props[i].name : i \in 1..Len(Entities[c].props) }

\* The method resolution order of c, as far as the source set reaches: c, its
\* base, the base of its base, ...  (ABC, and IdentifiedObject of the absent
\* module opengis.referencing.datum, end the chain).
\* Faulty variant of MRO: the lookup stops at the direct parent.
MROParentOnly(c) ==
    IF c \notin ClassNames THEN << >>
    ELSE IF Base(c) \in ClassNames THEN <<c, Base(c)>> ELSE <<c>>

RECURSIVE MRO(_)
MRO(c) == IF c \in ClassNames THEN <<c>> \o MRO(Base(c)) ELSE << >>

\* The class the chain of c ends in.
Root(c) == Base(MRO(c)[Len(MRO(c))])

\* Faulty variant of Properties: a lookup that stops at the body of c.
PropertiesOfBodyOnly(c) == OwnProperties(c)

\* getattr on an instance of c finds a property named n when a class of the
\* MRO binds it: the properties an instance of c exposes.
Properties(c) ==
    UNION { OwnProperties(MRO(c)[i]) : i \in 1..Len(MRO(c)) }

\* The same, tabulated once for the classes of the source.
PropertyTable == [c \in ClassNames |-> Properties(c)]

\* Faulty variant of HasSetter: the properties are declared with a setter.
HasSetterDeclared(c, p) == TRUE

\* Every property of the source is declared @property @abstractmethod with a
\* getter only: none has a setter or a deleter.
HasSetter(c, p) == FALSE

\* The declaration of property n that an instance of c sees: the one of the
\* first class of the MRO that declares n.
Declaration(c, n) ==
    LET k == MRO(c)[CHOOSE i \in 1..Len(MRO(c)) :
                       /\ n \in OwnProperties(MRO(c)[i])
                       /\ \A j \in 1..(i - 1) : n \notin OwnProperties(MRO(c)[j])]
        i == CHOOSE i \in 1..Len(Entities[k].props) : Entities[k].props[i].name = n
    IN  Entities[k].props[i]

\* Faulty variant of Mandatory: a property without return annotation taken
\* for always present.
MandatoryUnlessOptional(c) ==
    { n \in Properties(c) : ~Declaration(c, n).optional }

\* The properties of c documented as always present: the return annotation
\* is written and is neither Optional[..] nor .. | None.
Mandatory(c) ==
    { n \in Properties(c) :
        Declaration(c, n).annotated /\ ~Declaration(c, n).optional }

MandatoryTable == [c \in ClassNames |-> Mandatory(c)]

\* Faulty variant of AbstractMethods: only the always-mandatory properties
\* are abstract.
AbstractMethodsMandatoryOnly(c) == MandatoryTable[c]

\* __abstractmethods__ of c: every property is abstract, and no class of the
\* source overrides an inherited property with a concrete one.
AbstractMethods(c) == PropertyTable[c]

(***************************************************************************)
(* The conditional-mandatory notes of the docstrings: "MANDATORY: If `x`   *)
(* (and `y`) is (are) `None`." on property prop of class entity.           *)
(***************************************************************************)
\* Faulty variant of MandatoryNotes: the notes of Lineage left out.
MandatoryNotesWithoutLineage ==
    { [entity |-> "Source",  prop |-> "description",  if_none |-> {"scope"}],
      [entity |-> "Source",  prop |-> "scope",        if_none |-> {"description"}] }

\* Faulty variant of MandatoryNotes: the note on Lineage.source names
\* `statement` alone.
MandatoryNotesSourceUnlessStatement ==
    { [entity |-> "Source",  prop |-> "description",  if_none |-> {"scope"}],
      [entity |-> "Source",  prop |-> "scope",        if_none |-> {"description"}],
      [entity |-> "Lineage", prop |-> "process_step", if_none |-> {"statement", "source"}],
      [entity |-> "Lineage", prop |-> "source",       if_none |-> {"statement"}] }

\* The notes as written in lineage.py.
MandatoryNotes ==
    { [entity |-> "Source",  prop |-> "description",  if_none |-> {"scope"}],
      [entity |-> "Source",  prop |-> "scope",        if_none |-> {"description"}],
      [entity |-> "Lineage", prop |-> "process_step", if_none |-> {"statement", "source"}],
      [entity |-> "Lineage", prop |-> "source",       if_none |-> {"statement", "process_step"}] }

\* The notes that apply to an instance of c: its own and the inherited ones.
NotesOf(c) ==
    { r \in MandatoryNotes : \E i \in 1..Len(MRO(c)) : MRO(c)[i] = r.entity }

\* Faulty variant of Group: the group is the noted property alone.
GroupOfPropertyAlone(r) == {r.prop}

\* The property group a note is about: the property and the siblings it names.
Group(r) == {r.prop} \cup r.if_none

\* Faulty variant of NoteViolated: the condition of a note read as "some
\* sibling is None" instead of "every sibling is None".
NoteViolatedIfAnySiblingNone(r, given) ==
    /\ ~(r.if_none \subseteq given)
    /\ r.prop \notin given

\* A note is violated when its condition holds (every sibling is None) and
\* the property is None too.  `given` is the set of non-None properties.
NoteViolated(r, given) ==
    /\ r.if_none \cap given = {}
    /\ r.prop \notin given

\* The validation pass of the specification (section 4.3): it reports, by
\* entity and group, every group with a violated note; it raises nothing.
ValidationReport(c, given) ==
    { [entity |-> r.entity, group |-> Group(r)] :
        r \in { n \in NotesOf(c) : NoteViolated(n, given) } }

\* Faulty variant of RefusedAtConstruction: the conditional-mandatory notes
\* are enforced when the instance is created, before any value is supplied.
RefusedAtConstructionEnforcing(c, implemented) ==
    (AbstractMethods(c) \ implemented)
        \cup { r.prop : r \in { n \in NotesOf(c) : NoteViolated(n, {}) } }

\* Faulty variant of RefusedAtConstruction: only the properties declared in
\* the body of c itself count, those of its ancestors are forgotten.
RefusedAtConstructionOwnOnly(c, implemented) == OwnProperties(c) \ implemented

\* What ABC holds against instantiating a subclass of c that implements the
\* properties `implemented`: the abstract methods left.  The values the
\* properties return play no part.
RefusedAtConstruction(c, implemented) == AbstractMethods(c) \ implemented

\* The metaclass of IdentifiedObject, the base of ReferenceSystem, declared in
\* the absent module opengis.referencing.datum: an abstract type like every
\* class of the package.
IdentifiedObjectMetaclass == "ABCMeta"

\* The metaclass of c, inherited from the class its chain of bases ends in:
\* ABCMeta under ABC.  Only ABCMeta looks at the abstract methods.
Metaclass(c) ==
    IF Root(c) = "ABC" THEN "ABCMeta" ELSE IdentifiedObjectMetaclass

\* What is held against calling the entity class c itself: its abstract
\* methods, when its metaclass is ABCMeta.
RefusedDirectly(c) ==
    IF Metaclass(c) = "ABCMeta" THEN RefusedAtConstruction(c, {}) ELSE {}

(***************************************************************************)
(* A client defines a concrete subclass of an entity class, instantiates   *)
(* it, supplies the values its properties return, and uses the instance.   *)
(***************************************************************************)
\* The entity classes a client subclasses in the model: the chain of bases is
\* all in the source set, and the class is within the bound.
InstanceClasses ==
    { c \in ClassNames :
        Root(c) = "ABC" /\ Cardinality(PropertyTable[c]) <= MaxProperties }

NoOutcome ==
    [op |-> None, prop |-> None, result |-> None, error |-> None, names |-> {}]

EntityInit ==
    /\ cls = None
    /\ impl = {}
    /\ present = {}
    /\ foreign = {}
    /\ held = [p \in {} |-> None]
    /\ phase = "none"
    /\ outcome = NoOutcome

\* class K(c) with a concrete property for every abstract one but `omitted`.
DefineSubclass(c, omitted) ==
    /\ phase = "none"
    /\ cls' = c
    /\ impl' = PropertyTable[c] \ omitted
    /\ phase' = "defined"
    /\ UNCHANGED <<present, foreign, held, outcome>>
    /\ UNCHANGED <<importVars, codecVars, typeVars, tableVars, gridVars>>

\* K(): ABC refuses to instantiate a class that still has abstract methods
\* and names them in the TypeError; otherwise the instance exists, with every
\* property returning None until a value is supplied.
Instantiate ==
    /\ phase = "defined"
    /\ LET missing == RefusedAtConstruction(cls, impl) IN
       IF missing = {}
       THEN /\ phase' = "building"
            /\ outcome' = [NoOutcome EXCEPT !.op = "instantiate"]
       ELSE /\ phase' = "failed"
            /\ outcome' = [NoOutcome EXCEPT !.op = "instantiate",
                                            !.error = "TypeError",
                                            !.names = missing]
    /\ UNCHANGED <<cls, impl, present, foreign, held>>
    /\ UNCHANGED <<importVars, codecVars, typeVars, tableVars, gridVars>>

\* c(): a client calls an entity class of the source itself.
InstantiateDirectly(c) ==
    /\ phase = "none"
    /\ cls' = c
    /\ impl' = {}
    /\ LET missing == RefusedDirectly(c) IN
       IF missing = {}
       THEN /\ phase' = "building"
            /\ outcome' = [NoOutcome EXCEPT !.op = "direct"]
       ELSE /\ phase' = "failed"
            /\ outcome' = [NoOutcome EXCEPT !.op = "direct",
                                            !.error = "TypeError",
                                            !.names = missing]
    /\ UNCHANGED <<present, foreign, held>>
    /\ UNCHANGED <<importVars, codecVars, typeVars, tableVars, gridVars>>

\* The code list a property is annotated with, or None: the return annotation
\* names an Enum class of the source.
CodeListOf(c, p) ==
    IF Declaration(c, p).type \in CodeListNames THEN Declaration(c, p).type
    ELSE None

\* The numbers a producer supplies for a float-typed property, as written.
FloatSamples == {"-10.0", "-5.0", "5.0", "10.0"}

\* The kinds of value a producer may make property p return: an instance of
\* the annotated type ("value"), for a float-typed property one of the sample
\* numbers, or, for a code-list-typed property, also a token that is no
\* member of the code list ("foreign").
ValueKinds(c, p) ==
    IF CodeListOf(c, p) # None THEN {"value", "foreign"}
    ELSE IF Declaration(c, p).type = "float" THEN FloatSamples
    ELSE {"value"}

\* Faulty variant of AcceptsValue: the return annotation is enforced.
AcceptsValueOfDeclaredType(c, p, v) == v # "foreign"

\* Whether the getter of p may return v: a return annotation is not checked
\* by Python, and no class of the source checks it.
AcceptsValue(c, p, v) == TRUE

\* The producer supplies the value of one more property, in any order.  Only
\* a refusal is recorded as an outcome.
Supply(p, v) ==
    /\ phase = "building"
    /\ outcome.op = None
    /\ p \in impl \ present
    /\ v \in ValueKinds(cls, p)
    /\ IF AcceptsValue(cls, p, v)
       THEN /\ present' = present \cup {p}
            /\ foreign' = IF v = "foreign" THEN foreign \cup {p} ELSE foreign
            /\ held' = IF v \in FloatSamples
                       THEN [q \in DOMAIN held \cup {p} |->
                                IF q = p THEN v ELSE held[q]]
                       ELSE held
            /\ UNCHANGED outcome
       ELSE /\ outcome' = [NoOutcome EXCEPT !.op = "supply", !.prop = p,
                                            !.error = "TypeError"]
            /\ UNCHANGED <<present, foreign, held>>
    /\ UNCHANGED <<cls, impl, phase>>
    /\ UNCHANGED <<importVars, codecVars, typeVars, tableVars, gridVars>>

\* The producer hands the instance over: construction is complete.
Finish ==
    /\ phase = "building"
    /\ outcome.op = None
    /\ phase' = "constructed"
    /\ UNCHANGED <<cls, impl, present, foreign, held, outcome>>
    /\ UNCHANGED <<importVars, codecVars, typeVars, tableVars, gridVars>>

\* instance.p
Read(p) ==
    /\ phase \in {"building", "constructed"}
    /\ outcome.op = None
    /\ p \in PropertyTable[cls]
    /\ outcome' = [NoOutcome EXCEPT !.op = "read", !.prop = p,
                       !.result = IF p \in foreign THEN "foreign"
                                  ELSE IF p \in DOMAIN held THEN held[p]
                                  ELSE IF p \in present THEN "value" ELSE None]
    /\ UNCHANGED <<cls, impl, present, foreign, held, phase>>
    /\ UNCHANGED <<importVars, codecVars, typeVars, tableVars, gridVars>>

\* instance.p = value, with value None (absent = TRUE) or not.
Assign(p, absent) ==
    /\ phase = "constructed"
    /\ outcome.op = None
    /\ p \in PropertyTable[cls]
    /\ IF HasSetter(cls, p)
       THEN /\ present' = IF absent THEN present \ {p} ELSE present \cup {p}
            /\ foreign' = foreign \ {p}
            /\ held' = [q \in DOMAIN held \ {p} |-> held[q]]
            /\ outcome' = [NoOutcome EXCEPT !.op = "assign", !.prop = p]
       ELSE /\ UNCHANGED <<present, foreign, held>>
            /\ outcome' = [NoOutcome EXCEPT !.op = "assign", !.prop = p,
                                            !.error = "AttributeError"]
    /\ UNCHANGED <<cls, impl, phase>>
    /\ UNCHANGED <<importVars, codecVars, typeVars, tableVars, gridVars>>

\* del instance.p
Delete(p) ==
    /\ phase = "constructed"
    /\ outcome.op = None
    /\ p \in PropertyTable[cls]
    /\ outcome' = [NoOutcome EXCEPT !.op = "delete", !.prop = p,
                                    !.error = "AttributeError"]
    /\ UNCHANGED <<cls, impl, present, foreign, held, phase>>
    /\ UNCHANGED <<importVars, codecVars, typeVars, tableVars, gridVars>>

\* Faulty variant of EnumProtectsMembers: an Enum class is an ordinary class.
EnumMembersAssignable == FALSE

\* EnumType refuses to rebind or delete a member of an Enum class.
EnumProtectsMembers == TRUE

\* E.NAME = token, or del E.NAME, on the code list E of property p while the
\* instance holds a member of E as p: an attempt to change the member set.
\* The result recorded is what p holds afterwards, relative to E.
ChangeMembers(p, how) ==
    /\ phase = "constructed"
    /\ outcome.op = None
    /\ CodeListOf(cls, p) # None
    /\ p \in present \ foreign
    /\ IF EnumProtectsMembers
       THEN /\ UNCHANGED foreign
            /\ outcome' = [NoOutcome EXCEPT !.op = how, !.prop = p,
                                            !.result = "value",
                                            !.error = "AttributeError"]
       ELSE /\ foreign' = foreign \cup {p}
            /\ outcome' = [NoOutcome EXCEPT !.op = how, !.prop = p,
                                            !.result = "foreign"]
    /\ UNCHANGED <<cls, impl, present, held, phase>>
    /\ UNCHANGED <<importVars, codecVars, typeVars, tableVars, gridVars>>

\* The explicit validation pass over the instance.
Validate ==
    /\ phase \in {"building", "constructed"}
    /\ outcome.op = None
    /\ outcome' = [NoOutcome EXCEPT !.op = "validate",
                       !.result = ValidationReport(cls, present)]
    /\ UNCHANGED <<cls, impl, present, foreign, held, phase>>
    /\ UNCHANGED <<importVars, codecVars, typeVars, tableVars, gridVars>>


\* The client has looked at the outcome of its last operation and goes on.
Continue ==
    /\ phase \in {"building", "constructed"}
    /\ outcome.op # None
    /\ outcome' = NoOutcome
    /\ UNCHANGED <<cls, impl, present, foreign, held, phase>>
    /\ UNCHANGED <<importVars, codecVars, typeVars, tableVars, gridVars>>

(***************************************************************************)
(* Return annotations: what a client who inspects the declarations (a type *)
(* checker, or C.p.fget.__annotations__["return"]) finds.                  *)
(***************************************************************************)
\* The direct supertype of the coordinate-system and datum types that
\* crs.py imports from the absent modules opengis.referencing.cs and .datum:
\* each is a specialization of CoordinateSystem, respectively Datum.
ExternalBase ==
    [ VerticalCS |-> "CoordinateSystem", TimeCS |-> "CoordinateSystem",
      EllipsoidalCS |-> "CoordinateSystem", CartesianCS |-> "CoordinateSystem",
      VerticalDatum |-> "Datum", TemporalDatum |-> "Datum",
      EngineeringDatum |-> "Datum", GeodeticDatum |-> "Datum" ]

\* The classes t derives from, t included: the MRO for a class of the source,
\* the table above for the imported coordinate-system and datum types.
Supertypes(t) ==
    IF t \in ClassNames THEN { MRO(t)[i] : i \in 1..Len(MRO(t)) } \cup {Root(t)}
    ELSE IF t \in DOMAIN ExternalBase THEN {t, ExternalBase[t]}
    ELSE {t}

\* issubclass(t, u)
IsSubtype(t, u) == u \in Supertypes(t)

\* The classes of the MRO of c, c included, whose body declares property p.
Declarers(c, p) ==
    { MRO(c)[i] : i \in { j \in 1..Len(MRO(c)) : p \in OwnProperties(MRO(c)[j]) } }

\* Faulty variant of References: the inherited properties left out.
ReferencesOfBodyOnly(c) == { Declaration(c, p).type : p \in OwnProperties(c) }

\* The types the return annotations of the properties of c name.
References(c) == { Declaration(c, p).type : p \in PropertyTable[c] }

\* Faulty variant of Requires: the element type of a sequence counted too.
RequiresSequenceElements(c) ==
    { Declaration(c, p).type :
        p \in { q \in PropertyTable[c] : ~Declaration(c, q).optional } }

\* The types a value of c cannot do without: those of the properties
\* annotated with a bare type.  Optional[T] admits None and Sequence[T]
\* admits the empty sequence.
Requires(c) ==
    { Declaration(c, p).type :
        p \in { q \in PropertyTable[c] :
                  ~Declaration(c, q).optional /\ ~Declaration(c, q).sequence } }

\* The types reached from the types S through the annotations of the classes
\* of the source: through every annotation, or (required) only through those
\* a value cannot do without.
RECURSIVE Reachable(_, _)
Reachable(S, required) ==
    LET step == UNION { IF required THEN Requires(c) ELSE References(c) :
                          c \in S \cap ClassNames }
    IN  IF step \subseteq S THEN S ELSE Reachable(S \cup step, required)

\* The classes defined by the body of source module m.
ClassesOf(m) ==
    CASE m = "opengis.metadata.citation"       -> DOMAIN CitationEntities
      [] m = "opengis.metadata.constraints"    -> DOMAIN ConstraintsEntities
      [] m = "opengis.metadata.content"        -> DOMAIN ContentEntities
      [] m = "opengis.metadata.distribution"   -> DOMAIN DistributionEntities
      [] m = "opengis.metadata.extension"      -> DOMAIN ExtensionEntities
      [] m = "opengis.metadata.extent"         -> DOMAIN ExtentEntities
      [] m = "opengis.metadata.identification" -> DOMAIN IdentificationEntities
      [] m = "opengis.metadata.lineage"        -> DOMAIN LineageEntities
      [] m = "opengis.metadata.maintenance"    -> DOMAIN MaintenanceEntities
      [] m = "opengis.metadata.representation" -> DOMAIN RepresentationEntities
      [] m = "opengis.metadata.service"        -> DOMAIN ServiceEntities
      [] m = "opengis.referencing.crs"         -> DOMAIN CrsEntities
      [] m = "opengis.geometry.primitive"      -> DOMAIN PrimitiveEntities
      [] OTHER -> {}

\* The module whose body holds the class statement of c: the globals of the
\* getters of c.
ModuleOf(c) == CHOOSE m \in SourceModules : c \in ClassesOf(m)

\* from __future__ import annotations: the annotations of m are kept as
\* strings and evaluated only on demand.
Postpones(m) ==
    \E i \in 1..Len(ModuleBody[m]) :
        /\ ModuleBody[m][i].kind = "from"
        /\ ModuleBody[m][i].module = "__future__"
        /\ "annotations" \in ModuleBody[m][i].names

\* The statements of m that bind name n, and every name m has bound once its
\* body has run to the end.
Binders(m, n) ==
    { i \in 1..Len(ModuleBody[m]) : n \in ModuleBody[m][i].names }

Bound(m) == UNION { ModuleBody[m][i].names : i \in 1..Len(ModuleBody[m]) }

\* An annotation as written, split at the dot: <<module alias, attribute>>,
\* or <<None, name>> for a bare name.
Qualified(t) ==
    CASE t = "crs.ReferenceSystem" -> <<"crs", "ReferenceSystem">>
      [] t = "measure.Distance" -> <<"measure", "Distance">>
      [] t = "meta_citation.Citation" -> <<"meta_citation", "Citation">>
      [] t = "meta_citation.Identifier" -> <<"meta_citation", "Identifier">>
      [] t = "meta_citation.OnlineResource" -> <<"meta_citation", "OnlineResource">>
      [] t = "meta_citation.Responsibility" -> <<"meta_citation", "Responsibility">>
      [] t = "meta_ctitation.Citation" -> <<"meta_ctitation", "Citation">>
      [] t = "meta_ctitation.Identifier" -> <<"meta_ctitation", "Identifier">>
      [] t = "meta_ctitation.Responsibility" -> <<"meta_ctitation", "Responsibility">>
      [] t = "meta_identification.Resolution" -> <<"meta_identification", "Resolution">>
      [] t = "meta_maintenance.Scope" -> <<"meta_maintenance", "Scope">>
      [] t = "meta_naming.GenericName" -> <<"meta_naming", "GenericName">>
      [] t = "meta_naming.MemberName" -> <<"meta_naming", "MemberName">>
      [] t = "meta_naming.Record" -> <<"meta_naming", "Record">>
      [] t = "meta_naming.RecordType" -> <<"meta_naming", "RecordType">>
      [] t = "meta_service.ParameterDirection" -> <<"meta_service", "ParameterDirection">>
      [] OTHER -> <<None, t>>

\* Evaluating the name t in the globals of module m, as
\* typing.get_type_hints does for an annotation kept as a string: "bound" for
\* a name the source binds, "external" for one that lives in a module outside
\* the source set, else the exception raised.
Resolve(m, t) ==
    LET alias == Qualified(t)[1]
        name == Qualified(t)[2]
        first == IF alias = None THEN name ELSE alias
        stmt == ModuleBody[m][CHOOSE i \in Binders(m, first) :
                                \A j \in Binders(m, first) : j <= i]
    IN  IF first \in Builtins THEN "bound"
        ELSE IF Binders(m, first) = {} THEN "NameError"
        ELSE IF stmt.kind = "def" THEN "bound"
        ELSE IF stmt.module \notin SourceModules THEN "external"
        ELSE IF name \in Bound(stmt.module) THEN "bound"
        ELSE IF alias = None THEN "ImportError" ELSE "AttributeError"

NoHint ==
    [class |-> None, prop |-> None, owner |-> None, annotated |-> FALSE,
     optional |-> FALSE, sequence |-> FALSE, type |-> None, quoted |-> FALSE,
     resolved |-> None]

TypeInit == hint = NoHint

\* The client looks up property p on class c and takes the return annotation
\* of its getter: the one of the first class of the MRO that declares p.
Inspect(c, p) ==
    /\ hint.class = None
    /\ LET d == Declaration(c, p) IN
       hint' = [class |-> c, prop |-> p,
                owner |-> CHOOSE k \in Declarers(c, p) :
                             \A a \in Declarers(c, p) : IsSubtype(k, a),
                annotated |-> d.annotated, optional |-> d.optional,
                sequence |-> d.sequence, type |-> d.type, quoted |-> d.quoted,
                resolved |-> None]
    /\ UNCHANGED <<importVars, codecVars, entityVars, tableVars, gridVars>>

\* The annotation under inspection was not evaluated when its class was
\* created: it is a string literal, or its module postpones evaluation.
Deferred ==
    /\ hint.class # None /\ hint.annotated
    /\ hint.quoted \/ Postpones(ModuleOf(hint.owner))

\* typing.get_type_hints on the getter: a deferred annotation is evaluated
\* now, in the globals of the module of the declaring class; an annotation
\* evaluated at class creation is handed back as the object it is.
Evaluate ==
    /\ hint.class # None /\ hint.annotated
    /\ hint.resolved = None
    /\ hint' = [hint EXCEPT !.resolved =
                  IF Deferred THEN Resolve(ModuleOf(hint.owner), hint.type)
                  ELSE "object"]
    /\ UNCHANGED <<importVars, codecVars, entityVars, tableVars, gridVars>>

\* The client is done with the annotation.
Discard ==
    /\ hint.class # None
    /\ hint' = NoHint
    /\ UNCHANGED <<importVars, codecVars, entityVars, tableVars, gridVars>>

(***************************************************************************)
(* The abbreviation tables: module-level lists of dictionaries, and what   *)
(* Python's list and dict let a client do with them.                       *)
(***************************************************************************)
TableNames == {"abbreviated_terms", "abbreviated_terms_packages"}

NoLookup == [table |-> None, abbreviation |-> None, terms |-> {}]

TableInit ==
    /\ loaded = FALSE
    /\ tables = [t \in TableNames |-> << >>]
    /\ found = NoLookup
    /\ nEdits = 0

\* import opengis.metadata: the two assignment statements build the lists.
\* A later import finds the module in sys.modules and builds nothing.
LoadTables ==
    /\ ~loaded
    /\ loaded' = TRUE
    /\ tables' = [t \in TableNames |->
                    IF t = "abbreviated_terms" THEN abbreviated_terms
                    ELSE abbreviated_terms_packages]
    /\ UNCHANGED <<found, nEdits>>
    /\ UNCHANGED <<importVars, codecVars, entityVars, typeVars, gridVars>>

\* The entries a client brings along.
SampleEntries ==
    { [abbreviation |-> "XML", term |-> "Example"],
      [abbreviation |-> "ZZ", term |-> "Example", stadard |-> "ISO 0"] }

\* d[k] = v on a dictionary: the key is rebound, or added.
SetKey(d, k, v) == [x \in DOMAIN d \cup {k} |-> IF x = k THEN v ELSE d[x]]

\* del l[i] on a list.
RemoveAt(l, i) == [j \in 1..(Len(l) - 1) |-> IF j < i THEN l[j] ELSE l[j + 1]]

\* opengis.metadata.<t>.append(e)
AppendEntry(t, e) ==
    /\ loaded /\ nEdits < MaxEdits
    /\ tables' = [tables EXCEPT ![t] = Append(@, e)]
    /\ nEdits' = nEdits + 1
    /\ UNCHANGED <<loaded, found>>
    /\ UNCHANGED <<importVars, codecVars, entityVars, typeVars, gridVars>>

\* del opengis.metadata.<t>[i]
RemoveEntry(t, i) ==
    /\ loaded /\ nEdits < MaxEdits
    /\ i \in 1..Len(tables[t])
    /\ tables' = [tables EXCEPT ![t] = RemoveAt(@, i)]
    /\ nEdits' = nEdits + 1
    /\ UNCHANGED <<loaded, found>>
    /\ UNCHANGED <<importVars, codecVars, entityVars, typeVars, gridVars>>

\* opengis.metadata.<t>[i] = e
AssignEntry(t, i, e) ==
    /\ loaded /\ nEdits < MaxEdits
    /\ i \in 1..Len(tables[t])
    /\ tables' = [tables EXCEPT ![t][i] = e]
    /\ nEdits' = nEdits + 1
    /\ UNCHANGED <<loaded, found>>
    /\ UNCHANGED <<importVars, codecVars, entityVars, typeVars, gridVars>>

\* opengis.metadata.<t>[i][k] = "Example"
AssignKey(t, i, k) ==
    /\ loaded /\ nEdits < MaxEdits
    /\ i \in 1..Len(tables[t])
    /\ tables' = [tables EXCEPT ![t][i] = SetKey(@, k, "Example")]
    /\ nEdits' = nEdits + 1
    /\ UNCHANGED <<loaded, found>>
    /\ UNCHANGED <<importVars, codecVars, entityVars, typeVars, gridVars>>

\* [e["term"] for e in opengis.metadata.<t> if e["abbreviation"] == a]
TermsOf(t, a) ==
    { tables[t][i].term :
        i \in { j \in 1..Len(tables[t]) :
                  /\ "abbreviation" \in DOMAIN tables[t][j]
                  /\ "term" \in DOMAIN tables[t][j]
                  /\ tables[t][j].abbreviation = a } }

\* The client looks an abbreviation up in a table.
LookUp(t, a) ==
    /\ loaded
    /\ found' = [table |-> t, abbreviation |-> a, terms |-> TermsOf(t, a)]
    /\ found' # found
    /\ UNCHANGED <<loaded, tables, nEdits>>
    /\ UNCHANGED <<importVars, codecVars, entityVars, typeVars, gridVars>>

(***************************************************************************)
(* Georectified.corner_points: an abstract property whose docstring notes  *)
(* that the sequence "should be 2 - 4" points long.                        *)
(***************************************************************************)
\* The points a producer chooses from: the two ends of one diagonal.
Points == {"origin", "opposite"}

\* The sequences of at most n points.
PointSequences(n) == UNION { [1..k -> Points] : k \in 0..n }

\* What a getter of corner_points may return: None, or a sequence of points.
CornerValues ==
    { [absent |-> TRUE, points |-> << >>] }
        \cup { [absent |-> FALSE, points |-> q] : q \in PointSequences(MaxPoints) }

NotReturned == [implemented |-> FALSE, absent |-> TRUE, points |-> << >>]

NotRead == [read |-> FALSE, absent |-> TRUE, points |-> << >>, error |-> None]

\* The length the docstring of corner_points asks for.
DocumentedLength == 2..4

GridInit ==
    /\ returned = NotReturned
    /\ exposed = NotRead

\* Faulty variant of CornerPointsReturnable: the documented length is a
\* condition on what the property hands out.
CornerPointsOfDocumentedLength(v) ==
    v.absent \/ Len(v.points) \in DocumentedLength

\* Whether the property hands out v: the getter is abstract, its body is the
\* docstring alone, and nothing in the class looks at the value the
\* overriding getter returns.
CornerPointsReturnable(v) == TRUE

\* A producer defines a concrete subclass of Georectified whose corner_points
\* returns v, and creates an instance.
ImplementCorners(v) ==
    /\ ~returned.implemented
    /\ returned' = [implemented |-> TRUE, absent |-> v.absent, points |-> v.points]
    /\ UNCHANGED exposed
    /\ UNCHANGED <<importVars, codecVars, entityVars, typeVars, tableVars>>

\* instance.corner_points
ReadCorners ==
    /\ returned.implemented
    /\ ~exposed.read
    /\ exposed' = IF CornerPointsReturnable(returned)
                  THEN [read |-> TRUE, absent |-> returned.absent,
                        points |-> returned.points, error |-> None]
                  ELSE [read |-> TRUE, absent |-> TRUE, points |-> << >>,
                        error |-> "ValueError"]
    /\ UNCHANGED returned
    /\ UNCHANGED <<importVars, codecVars, entityVars, typeVars, tableVars>>

\* The instance is dropped.
DropGrid ==
    /\ exposed.read
    /\ returned' = NotReturned
    /\ exposed' = NotRead
    /\ UNCHANGED <<importVars, codecVars, entityVars, typeVars, tableVars>>

(***************************************************************************)
(* Specifications.                                                         *)
(***************************************************************************)
Init == ImportInit /\ CodecInit /\ EntityInit /\ TypeInit /\ TableInit /\ GridInit

\* Importing the modules.
ImportNext ==
    \/ \E m \in SourceModules : Import(m)
    \/ ServeRequest
    \/ ExecImport
    \/ ExecDefine
    \/ EndLoad

SpecImport == Init /\ [][ImportNext]_vars

\* Encoding and decoding code list members.
CodecNext ==
    \/ \E E \in CodeListNames : \E n \in Names(E) : Select(E, n)
    \/ Encode
    \/ Decode
    \/ \E F \in CodeListNames : DecodeElsewhere(F)
    \/ Release

SpecCodec == Init /\ [][CodecNext]_vars

\* Subclassing, instantiating and using an entity.
EntityNext ==
    \/ \E c \in InstanceClasses :
         \E omitted \in { s \in SUBSET PropertyTable[c] : Cardinality(s) <= MaxOmitted } :
            DefineSubclass(c, omitted)
    \/ Instantiate
    \/ \E c \in ClassNames : InstantiateDirectly(c)
    \/ \E p \in impl : \E v \in {"value", "foreign"} \cup FloatSamples : Supply(p, v)
    \/ Finish
    \/ \E p \in impl : Read(p)
    \/ \E p \in impl : \E absent \in BOOLEAN : Assign(p, absent)
    \/ \E p \in impl : Delete(p)
    \/ \E p \in impl : \E how \in {"reassign_member", "delete_member"} :
          ChangeMembers(p, how)
    \/ Validate
    \/ Continue

SpecEntity == Init /\ [][EntityNext]_vars

\* The whole program: any of the three activities, interleaved.
\* Inspecting the declarations.
TypeNext ==
    \/ \E c \in ClassNames : \E p \in PropertyTable[c] : Inspect(c, p)
    \/ Evaluate
    \/ Discard

SpecTypes == Init /\ [][TypeNext]_vars

\* Using the abbreviation tables.
TableNext ==
    \/ LoadTables
    \/ \E t \in TableNames : \E e \in SampleEntries : AppendEntry(t, e)
    \/ \E t \in TableNames : \E i \in 1..Len(tables[t]) : RemoveEntry(t, i)
    \/ \E t \in TableNames : \E i \in 1..Len(tables[t]) :
          \E e \in SampleEntries : AssignEntry(t, i, e)
    \/ \E t \in TableNames : \E i \in 1..Len(tables[t]) :
          \E k \in {"term", "abbreviation"} : AssignKey(t, i, k)
    \/ \E t \in TableNames : \E a \in {"XML", "CI", "ZZ"} : LookUp(t, a)

SpecTables == Init /\ [][TableNext]_vars

\* Producing and reading the corner points of a georectified grid.
GridNext ==
    \/ \E v \in CornerValues : ImplementCorners(v)
    \/ ReadCorners
    \/ DropGrid

SpecGrid == Init /\ [][GridNext]_vars

Next == ImportNext \/ CodecNext \/ EntityNext \/ TypeNext \/ TableNext \/ GridNext

Spec == Init /\ [][Next]_vars

(***************************************************************************)
(* Properties.                                                             *)
(***************************************************************************)

C2_RoundTrip ==
    /\ dec # None => dec = sym
    /\ cl # None =>
          \A i, j \in 1..Len(CodeLists[cl]) :
             i # j => CodeLists[cl][i][2] # CodeLists[cl][j][2]

\* A client has encoded BandDefinition.HALF_MAXIMUM and decoded the token.
C2_Witness ==
    cl = "BandDefinition" /\ sym = "HALF_MAXIMUM" /\ dec # None

\* Every class of the source exposes every property its ancestors expose.
SubtypesExposeParents ==
    \A c \in ClassNames :
       \A i \in 1..Len(MRO(c)) : PropertyTable[MRO(c)[i]] \subseteq PropertyTable[c]

\* C3: for every pair (parent, subtype) of the hierarchy the subtype exposes
\* a superset of the parent's properties; Individual and Organisation expose
\* name, contact_info and party_identifier of Party plus their own; and every
\* inherited property can be read on an instance of the subtype.
C3_SubtypeSuperset ==
    /\ SubtypesExposeParents
    /\ {"name", "contact_info", "party_identifier", "position_name"}
          \subseteq PropertyTable["Individual"]
    /\ {"name", "contact_info", "party_identifier", "logo", "individual"}
          \subseteq PropertyTable["Organisation"]
    /\ phase \in {"building", "constructed"} =>
          \A i \in 1..Len(MRO(cls)) : OwnProperties(MRO(cls)[i]) \subseteq impl
    /\ outcome.op = "read" => outcome.error = None

\* A property declared by Party has been read on an Individual.
C3_Witness ==
    /\ cls = "Individual" /\ phase = "constructed"
    /\ outcome.op = "read" /\ outcome.prop = "name" /\ outcome.error = None

\* C4: loading never fails on a circular dependency: no import statement
\* raises ImportError, and once a request has ended no module is left
\* partially initialised.
C4_NoCircularImportFailure ==
    /\ raised.type # "ImportError"
    /\ (stack = << >> /\ request = None) =>
          \A m \in SourceModules : sys_modules[m] # "partial"

\* C5: validating an instance in which all members of a documented
\* conditional-mandatory group are absent fails: a Source without
\* description and scope, a Lineage without statement, process_step and
\* source.
C5_AllAbsentFails ==
    outcome.op = "validate" =>
        /\ (cls = "Source" /\ {"description", "scope"} \cap present = {})
              => outcome.result # {}
        /\ (cls = "Lineage" /\ {"statement", "process_step", "source"} \cap present = {})
              => outcome.result # {}

\* A Lineage with statement, process_step and source absent was validated.
C5_Witness ==
    /\ cls = "Lineage" /\ outcome.op = "validate"
    /\ {"statement", "process_step", "source"} \cap present = {}

\* C6: validating an instance in which exactly one member of a documented
\* group is present passes, whichever member it is.
C6_ExactlyOnePasses ==
    outcome.op = "validate" =>
        /\ (cls = "Source" /\ Cardinality({"description", "scope"} \cap present) = 1)
              => outcome.result = {}
        /\ (cls = "Lineage"
              /\ Cardinality({"statement", "process_step", "source"} \cap present) = 1)
              => outcome.result = {}

\* A Lineage in which process_step alone is present was validated.
C6_Witness ==
    /\ cls = "Lineage" /\ outcome.op = "validate"
    /\ {"statement", "process_step", "source"} \cap present = {"process_step"}

\* C7: a conditional-mandatory rule is never enforced at construction: a
\* Source or Lineage whose subclass implements every property is created and
\* read without error whatever values are absent, and only the validation
\* step ever reports a violated group.
C7_NotEnforcedAtConstruction ==
    cls \in {"Source", "Lineage"} =>
        /\ impl = PropertyTable[cls] => phase # "failed"
        /\ (outcome.op \in {"instantiate", "read"} /\ impl = PropertyTable[cls])
              => outcome.error = None
        /\ outcome.op # "validate" => outcome.result \in {None, "value"}

\* A Source with description and scope both absent has been constructed and
\* its description read.
C7_Witness ==
    /\ cls = "Source" /\ phase = "constructed"
    /\ {"description", "scope"} \cap present = {}
    /\ outcome.op = "read" /\ outcome.prop = "description"
    /\ outcome.result = None /\ outcome.error = None

\* C8: the outcome of validation is a report, not an error, and it names
\* every violated group: the Source description/scope group, the Lineage
\* statement/process_step/source group.
C8_ReportNamesGroup ==
    outcome.op = "validate" =>
        /\ outcome.error = None
        /\ (cls = "Source" /\ {"description", "scope"} \cap present = {})
              => [entity |-> "Source", group |-> {"description", "scope"}]
                    \in outcome.result
        /\ (cls = "Lineage" /\ {"statement", "process_step", "source"} \cap present = {})
              => [entity |-> "Lineage",
                  group |-> {"statement", "process_step", "source"}]
                    \in outcome.result
        /\ \A g \in outcome.result :
              /\ g.entity \in {"Source", "Lineage"}
              /\ g.group \cap present = {}

\* A Source with description and scope absent was validated.
C8_Witness ==
    /\ cls = "Source" /\ outcome.op = "validate"
    /\ {"description", "scope"} \cap present = {}

\* C9 as stated: an instance that omits an always-mandatory property cannot
\* be constructed, the failure names the missing property, and construction
\* succeeds when every always-mandatory property is supplied.
C9_MandatoryEnforcedAtConstruction ==
    /\ phase = "constructed" => MandatoryTable[cls] \subseteq present
    /\ phase = "failed" =>
          /\ ~(MandatoryTable[cls] \subseteq impl)
          /\ outcome.names \subseteq MandatoryTable[cls]

\* For every entity class of the source, Citation and Identification
\* included: a subclass implementing every declared property is accepted,
\* and one leaving out a single property is refused with that property named.
RefusesExactlyUnimplemented ==
    \A c \in ClassNames :
       /\ RefusedAtConstruction(c, PropertyTable[c]) = {}
       /\ \A p \in PropertyTable[c] :
             RefusedAtConstruction(c, PropertyTable[c] \ {p}) = {p}

\* C9 amended: construction fails exactly when the subclass leaves a declared
\* property unimplemented, mandatory or optional alike, and the TypeError
\* names the unimplemented properties; the values returned are not looked at.
C9_UnimplementedRefused ==
    /\ RefusesExactlyUnimplemented
    /\ phase = "failed" =>
          /\ outcome.error = "TypeError"
          /\ outcome.names = PropertyTable[cls] \ impl
          /\ outcome.names # {}
    /\ phase \in {"building", "constructed"} => impl = PropertyTable[cls]
    /\ phase \in {"building", "constructed", "failed"} => present \subseteq impl

\* Instantiating a subclass of ProcessStep without `description` failed.
C9_Witness ==
    /\ cls = "ProcessStep" /\ phase = "failed"
    /\ outcome.names = {"description"}

\* No property of any entity class of the source has a setter.
GetterOnly ==
    \A c \in ClassNames : \A p \in PropertyTable[c] : ~HasSetter(c, p)

C11_NoDirectInstantiation ==
    outcome.op = "direct" =>
        /\ AbstractMethods(cls) # {}
        /\ outcome.error = "TypeError"
        /\ phase = "failed"

\* C12: wherever a class redeclares a property of an ancestor (only the CRS
\* classes do: coordinate_system, datum, base_crs, conversion_from_base), the
\* return type the subtype declares is the same as, or a subtype of, the
\* return type every declaring ancestor declares, e.g. ProjectedCRS.base_crs:
\* GeographicCRS against DerivedCRS.base_crs: CoordinateReferenceSystem.
C12_CovariantReturn ==
    hint.class # None =>
        \A a \in Declarers(hint.class, hint.prop) :
           /\ IsSubtype(hint.type, Declaration(a, hint.prop).type)
           /\ hint.sequence = Declaration(a, hint.prop).sequence
           /\ hint.optional => Declaration(a, hint.prop).optional

\* The return annotation of ProjectedCRS.base_crs, which narrows the one of
\* DerivedCRS, is under inspection.
C12_Witness ==
    /\ hint.class = "ProjectedCRS" /\ hint.prop = "base_crs"
    /\ hint.owner = "ProjectedCRS" /\ hint.type = "GeographicCRS"
    /\ Declaration("DerivedCRS", "base_crs").type = "CoordinateReferenceSystem"

\* The direct-parent relation of the reference-system classes as claimed.
CrsParent ==
    [ CoordinateReferenceSystem |-> "ReferenceSystem",
      SingleCRS |-> "CoordinateReferenceSystem",
      CompoundCRS |-> "CoordinateReferenceSystem",
      GeodeticCRS |-> "SingleCRS", VerticalCRS |-> "SingleCRS",
      TemporalCRS |-> "SingleCRS", EngineeringCRS |-> "SingleCRS",
      DerivedCRS |-> "SingleCRS",
      GeographicCRS |-> "GeodeticCRS",
      ProjectedCRS |-> "DerivedCRS" ]

\* C13: the direct parents of the reference-system classes are exactly those
\* of CrsParent, no other class of the source derives from one of them,
\* CompoundCRS is not a SingleCRS, and CompoundCRS.components is declared a
\* sequence of SingleCRS, so no CompoundCRS is a direct component of one.
C13_CrsHierarchy ==
    hint.class \in DOMAIN CrsEntities =>
        /\ DOMAIN CrsEntities = DOMAIN CrsParent \cup {"ReferenceSystem"}
        /\ hint.class # "ReferenceSystem" => Base(hint.class) = CrsParent[hint.class]
        /\ \A c \in ClassNames :
              Base(c) \in DOMAIN CrsEntities => c \in DOMAIN CrsParent
        /\ ~IsSubtype("CompoundCRS", "SingleCRS")
        /\ (hint.class = "CompoundCRS" /\ hint.prop = "components") =>
              /\ hint.sequence /\ hint.type = "SingleCRS"
              /\ ~IsSubtype("CompoundCRS", hint.type)

\* The declaration of CompoundCRS.components is under inspection.
C13_Witness ==
    /\ hint.class = "CompoundCRS" /\ hint.prop = "components"
    /\ hint.owner = "CompoundCRS" /\ hint.sequence

\* C14 as stated: a code-list-typed property only ever holds a member of its
\* code list: a value outside the domain is rejected when the instance is
\* defined and is never observed at run time.
C14_CodeListDomainEnforced ==
    /\ foreign = {}
    /\ (outcome.op = "read" /\ CodeListOf(cls, outcome.prop) # None)
          => outcome.result \in {None, "value"}

\* C14 amended: the code list of a property is a declaration only.  A token
\* outside the domain is never refused, neither when the subclass is
\* instantiated nor when the value is supplied, and it is what a read
\* returns; properties of other types and absent values are read as before.
\* The member set of a code list cannot change: rebinding or deleting a
\* member is refused with AttributeError and the value held stays a member.
C14_CodeListDeclaredNotEnforced ==
    /\ outcome.op # "supply"
    /\ foreign \subseteq present
    /\ \A p \in foreign : CodeListOf(cls, p) \in CodeListNames
    /\ outcome.op = "read" =>
          /\ outcome.error = None
          /\ outcome.result = "foreign" <=> outcome.prop \in foreign
    /\ outcome.op \in {"reassign_member", "delete_member"} =>
          /\ outcome.error = "AttributeError"
          /\ outcome.result = "value"
          /\ outcome.prop \notin foreign

\* A Responsibility whose role returns a token outside RoleCode has been
\* constructed and the token read.
C14_Witness ==
    /\ cls = "Responsibility" /\ phase = "constructed"
    /\ CodeListOf(cls, "role") = "RoleCode"
    /\ outcome.op = "read" /\ outcome.prop = "role"
    /\ outcome.result = "foreign"

\* C15 as stated: the external string of every member of every code list
\* differs from the member's symbolic name.
C15_TokenDiffersFromName ==
    tok # None => tok # member

\* The members whose external string is spelled exactly like their name.
SameAsName ==
    { <<"DCPList", n>> :
        n \in {"XML", "CORBA", "JAVA", "COM", "SQL", "SOAP", "Z3950", "HTTP", "FTP"} }

\* C15 amended: the external string of a member differs from its symbolic
\* name except for nine members of DCPList (XML, CORBA, JAVA, COM, SQL, SOAP,
\* Z3950, HTTP, FTP), whose token is the name itself; the pair (name, token)
\* is the one of the definition and both survive encoding and decoding.
C15_TokenAndNamePreserved ==
    /\ member # None => member = sym
    /\ tok # None =>
          /\ tok = member <=> <<cl, member>> \in SameAsName
          /\ <<member, tok>> = CodeLists[cl][IndexOf(cl, sym)]
    /\ dec # None => dec = member /\ Value(cl, dec) = tok

\* The token of DCPList.XML, which is "XML", has been read and decoded.
C15_Witness ==
    cl = "DCPList" /\ sym = "XML" /\ tok = "XML" /\ dec = "XML"

\* C16: Citation.identifier is a sequence of Identifier and
\* Identifier.authority is a Citation, a class of the source (a
\* type-consistent back-reference).  Neither value has to hold the other
\* inside itself without end: a Citation cannot do without a type only if it
\* is reached through bare annotations, and Identifier is not, nor is
\* Citation itself (the identifier sequence may be empty); an Identifier
\* needs a Citation, which needs no Identifier.
C16_CitationIdentifierReference ==
    /\ (hint.class = "Citation" /\ hint.prop = "identifier") =>
          /\ hint.sequence /\ hint.type = "Identifier"
          /\ Declaration(hint.type, "authority").type = "Citation"
          /\ "Identifier" \notin Reachable(Requires("Citation"), TRUE)
          /\ "Citation" \notin Reachable(Requires("Citation"), TRUE)
    /\ (hint.class = "Identifier" /\ hint.prop = "authority") =>
          /\ ~hint.sequence /\ hint.type = "Citation"
          /\ hint.type \in ClassNames
          /\ "Citation" \in Requires("Identifier")
          /\ "Identifier" \notin Reachable(Requires("Identifier"), TRUE)

\* The annotation of Citation.identifier, written as the forward reference
\* 'Identifier', is under inspection.
C16_Witness ==
    /\ hint.class = "Citation" /\ hint.prop = "identifier"
    /\ hint.type = "Identifier" /\ hint.quoted

\* C17 as stated: starting from Individual and following the declared types
\* of its own and inherited properties and of what they reference, neither
\* Organisation nor Party is reached.
C17_NoPartyReachableFromIndividual ==
    hint.class = "Individual" =>
        {"Organisation", "Party"} \cap Reachable(References("Individual"), FALSE) = {}

\* C17 amended: Organisation.individual is a sequence of Individual, and no
\* property of Individual, own or inherited, is declared as Party,
\* Organisation or Individual, so an Organisation does not contain an
\* Organisation directly; nor does a value of either class need a Party,
\* every chain running through a sequence.  Transitively the declared types
\* do lead from Individual back to Party, of which Organisation is a variant:
\* party_identifier is a sequence of Identifier, Identifier.authority a
\* Citation, Citation.cited_responsible_party a sequence of Responsibility,
\* and Responsibility.party a sequence of Party.
C17_NoDirectPartyInIndividual ==
    /\ (hint.class = "Organisation" /\ hint.prop = "individual") =>
          hint.sequence /\ hint.type = "Individual"
    /\ hint.class = "Individual" =>
          /\ hint.type \notin {"Party", "Organisation", "Individual"}
          /\ References("Individual") \cap {"Party", "Organisation", "Individual"} = {}
          /\ Reachable(Requires("Individual"), TRUE) \cap ClassNames = {}
          /\ Reachable(Requires("Organisation"), TRUE)
                \cap {"Party", "Organisation", "Individual"} = {}
    /\ (hint.class = "Individual" /\ hint.prop = "party_identifier") =>
          /\ hint.owner = "Party" /\ hint.sequence /\ hint.type = "Identifier"
          /\ "Citation" \in References("Identifier")
          /\ "Responsibility" \in References("Citation")
          /\ "Party" \in References("Responsibility")
          /\ "Party" \in Reachable(References("Individual"), FALSE)
          /\ IsSubtype("Organisation", "Party")

\* The annotation of party_identifier, which Individual inherits from Party,
\* is under inspection.
C17_Witness ==
    /\ hint.class = "Individual" /\ hint.prop = "party_identifier"
    /\ hint.type = "Identifier"

\* C18 as stated: Extent aggregates sequences of GeographicExtent,
\* TemporalExtent and VerticalExtent, each of which has at least one declared
\* specialization; those of GeographicExtent are exactly
\* GeographicBoundingBox, GeographicDescription and BoundingPolygon, each
\* exposing extent_type_code.
C18_EachExtentHasVariants ==
    (hint.class = "Extent"
        /\ hint.prop \in {"geographic_element", "temporal_element", "vertical_element"}) =>
        /\ hint.sequence
        /\ hint.type \in {"GeographicExtent", "TemporalExtent", "VerticalExtent"}
        /\ Subclasses(hint.type) # {}
        /\ hint.type = "GeographicExtent" =>
              /\ Subclasses(hint.type) =
                    {"GeographicBoundingBox", "GeographicDescription", "BoundingPolygon"}
              /\ \A k \in Subclasses(hint.type) : "extent_type_code" \in PropertyTable[k]

\* C18 amended: Extent aggregates sequences of GeographicExtent,
\* TemporalExtent and VerticalExtent.  GeographicExtent has exactly the
\* specializations GeographicBoundingBox, GeographicDescription and
\* BoundingPolygon, each exposing extent_type_code; TemporalExtent has the
\* single specialization SpatialTemporalExtent; VerticalExtent has none.
C18_ExtentVariants ==
    hint.class = "Extent" =>
        /\ hint.prop = "geographic_element" =>
              /\ hint.sequence /\ hint.type = "GeographicExtent"
              /\ Subclasses(hint.type) =
                    {"GeographicBoundingBox", "GeographicDescription", "BoundingPolygon"}
              /\ \A k \in Subclasses(hint.type) : "extent_type_code" \in PropertyTable[k]
        /\ hint.prop = "temporal_element" =>
              /\ hint.sequence /\ hint.type = "TemporalExtent"
              /\ Subclasses(hint.type) = {"SpatialTemporalExtent"}
        /\ hint.prop = "vertical_element" =>
              /\ hint.sequence /\ hint.type = "VerticalExtent"
              /\ Subclasses(hint.type) = {}
        /\ hint.prop \in {"description", "geographic_element", "temporal_element",
                          "vertical_element"}

\* The annotation of Extent.vertical_element is under inspection.
C18_Witness ==
    /\ hint.class = "Extent" /\ hint.prop = "vertical_element"
    /\ hint.type = "VerticalExtent" /\ hint.sequence

\* The four bounds of the scenario.
ScenarioBounds ==
    [ west_bound_longitude |-> "-10.0", east_bound_longitude |-> "10.0",
      south_bound_latitude |-> "-5.0", north_bound_latitude |-> "5.0" ]

C20_EveryPropertyTyped ==
    hint.class # None =>
        /\ hint.annotated
        /\ hint.type # ""
        /\ Cardinality({ shape \in {"scalar", "optional scalar", "sequence",
                                     "optional sequence"} :
                           /\ (shape \in {"sequence", "optional sequence"}) = hint.sequence
                           /\ (shape \in {"optional scalar", "optional sequence"})
                                 = hint.optional }) = 1

\* C21: the abbreviation tables are built once, when the package is loaded,
\* and no later operation (append, removal, item assignment on a table or
\* on one of its entries) changes their content.
C21_TablesReadOnly ==
    loaded =>
        /\ tables["abbreviated_terms"] = abbreviated_terms
        /\ tables["abbreviated_terms_packages"] = abbreviated_terms_packages

\* C29: in each of the two tables every abbreviation occurs at most once, so
\* a lookup by abbreviation gives at most one term, and all entries of one
\* table have the same set of keys.
C29_AbbreviationsUnique ==
    loaded =>
        /\ \A t \in TableNames : \A i, j \in 1..Len(tables[t]) :
              /\ DOMAIN tables[t][i] = DOMAIN tables[t][j]
              /\ i # j => tables[t][i].abbreviation # tables[t][j].abbreviation
        /\ Cardinality(found.terms) <= 1

\* C22: every deferred type reference (an annotation written as a string,
\* or any annotation of lineage.py and distribution.py) names a type that
\* the source module it refers to actually defines.
C22_DeferredReferencesResolve ==
    (Deferred /\ hint.resolved # None) => hint.resolved \in {"bound", "external"}

\* C23: the MANDATORY notes of an entity hold together for exactly the
\* presence/absence combinations in which at least one member of the group
\* is present: description and scope for Source (4 combinations);
\* statement, process_step and source for Lineage (8 combinations), although
\* statement carries no note of its own.
C23_NotesHoldIffGroupNonEmpty ==
    /\ \A given \in SUBSET {"description", "scope"} :
          (\A r \in NotesOf("Source") : ~NoteViolated(r, given)) <=> given # {}
    /\ \A given \in SUBSET {"statement", "process_step", "source"} :
          (\A r \in NotesOf("Lineage") : ~NoteViolated(r, given)) <=> given # {}
    /\ (cls = "Source" /\ phase \in {"building", "constructed"}) =>
          ((\A r \in NotesOf(cls) : ~NoteViolated(r, present))
              <=> {"description", "scope"} \cap present # {})
    /\ (cls = "Lineage" /\ phase \in {"building", "constructed"}) =>
          ((\A r \in NotesOf(cls) : ~NoteViolated(r, present))
              <=> {"statement", "process_step", "source"} \cap present # {})

\* A Lineage was handed over with a statement and neither process_step nor
\* source: no note is written on statement, and none is violated.
C23_Witness ==
    /\ cls = "Lineage" /\ phase = "constructed"
    /\ {"statement", "process_step", "source"} \cap present = {"statement"}
    /\ \A r \in NotesOf(cls) : ~NoteViolated(r, present)

UnboundAt(m, i) ==
    ModuleBody[m][i].uses
        \ (Builtins \cup UNION { ModuleBody[m][j].names : j \in 1..(i - 1) })

C25_EagerNamesBound ==
    /\ raised.type # "NameError"
    /\ \A m \in SourceModules : \A i \in 1..Len(ModuleBody[m]) :
          (ModuleBody[m][i].kind = "def" /\ i >= pc[m]) => UnboundAt(m, i) = {}

\* The abstract properties declared by c and by all its ancestors.
DeclaredAlongChain(c) ==
    UNION { OwnProperties(MRO(c)[i]) : i \in 1..Len(MRO(c)) }

\* C26: a concrete subclass of an entity can be instantiated exactly when it
\* implements every abstract property declared by the entity and by all its
\* ancestors.  Mandatory and optional properties are treated alike (a Source
\* subclass without the optional source_citation is refused like one without
\* a mandatory property), and the values are not looked at: the instance
\* exists while every property still returns None.
C26_InstantiableIffImplemented ==
    outcome.op = "instantiate" =>
        /\ (outcome.error = None) <=> (DeclaredAlongChain(cls) \subseteq impl)
        /\ (outcome.error = None) <=> (phase = "building")
        /\ outcome.error = None => present = {}
        /\ outcome.error # None =>
              /\ outcome.error = "TypeError" /\ phase = "failed"
              /\ outcome.names = DeclaredAlongChain(cls) \ impl
        /\ (cls = "Source" /\ "source_citation" \notin impl) =>
              /\ Declaration("Source", "source_citation").optional
              /\ outcome.error = "TypeError"

\* A subclass of Source that implements everything but the optional
\* source_citation was refused.
C26_Witness ==
    /\ cls = "Source" /\ outcome.op = "instantiate" /\ phase = "failed"
    /\ impl = PropertyTable["Source"] \ {"source_citation"}
    /\ outcome.names = {"source_citation"}

\* C27: every entity class has exactly one direct parent and the parent
\* relation has no cycle, so the properties of an entity are the union of
\* the properties declared along one chain of ancestors, and no property is
\* inherited along two different paths.
C27_SingleInheritanceChain ==
    hint.class # None =>
        LET c == hint.class
            chain == MRO(c)
        IN  /\ Cardinality({ k \in ClassNames : c \in Subclasses(k) })
                  = IF Base(c) \in ClassNames THEN 1 ELSE 0
            /\ chain[1] = c
            /\ \A i \in 1..(Len(chain) - 1) : chain[i + 1] = Base(chain[i])
            /\ \A i, j \in 1..Len(chain) : chain[i] = chain[j] => i = j
            /\ Root(c) \notin ClassNames
            /\ PropertyTable[c] =
                  UNION { OwnProperties(chain[i]) : i \in 1..Len(chain) }
            /\ Base(c) \in ClassNames =>
                  PropertyTable[c] = OwnProperties(c) \cup PropertyTable[Base(c)]
            /\ \A a, b \in Declarers(c, hint.prop) : IsSubtype(a, b) \/ IsSubtype(b, a)
            /\ hint.owner \in Declarers(c, hint.prop)
            /\ c = "Band" => chain = <<"Band", "SampleDimension", "RangeDimension">>
            /\ c = "ImageDescription" =>
                  chain = <<"ImageDescription", "CoverageDescription", "ContentInformation">>
            /\ c = "Georectified" =>
                  chain = <<"Georectified", "GridSpatialRepresentation", "SpatialRepresentation">>
            /\ c = "ProjectedCRS" =>
                  chain = <<"ProjectedCRS", "DerivedCRS", "SingleCRS",
                            "CoordinateReferenceSystem", "ReferenceSystem">>

\* A property that Band inherits from its grandparent RangeDimension is
\* under inspection.
C27_Witness ==
    /\ hint.class = "Band" /\ hint.owner = "RangeDimension"
    /\ hint.prop \in OwnProperties("RangeDimension") \ OwnProperties("SampleDimension")

\* The tokens two code lists have in common.
SharedTokens(E, F) ==
    { Value(E, m) : m \in Members(E) } \cap { Value(F, n) : n \in Members(F) }

\* C28: members of two different code lists are always distinct values, even
\* when they carry the same token ("restricted", "confidential" and
\* "sensitiveButUnclassified" in ClassificationCode and RestrictionCode,
\* "series" in AssociationTypeCode and ScopeCode, "platform" in
\* InitiativeTypeCode and KeywordTypeCode); a token is decoded to a unique
\* member only once the code list is fixed.
C28_CodeListsDisjoint ==
    /\ {"restricted", "confidential", "sensitiveButUnclassified"}
          \subseteq SharedTokens("ClassificationCode", "RestrictionCode")
    /\ "series" \in SharedTokens("AssociationTypeCode", "ScopeCode")
    /\ "platform" \in SharedTokens("InitiativeTypeCode", "KeywordTypeCode")
    /\ tok # None =>
          \A E \in CodeListNames :
             Cardinality({ m \in Members(E) : Value(E, m) = tok }) <= 1
    /\ other.cl # None =>
          /\ other.cl # cl
          /\ other.member # "ValueError" =>
                /\ ~SameMember(cl, member, other.cl, other.member)
                /\ other.member \in Members(other.cl)
                /\ Value(other.cl, other.member) = tok
                /\ Value(cl, member) = tok
          /\ other.member = "ValueError" =>
                tok \notin SharedTokens(cl, other.cl)

\* The token of ClassificationCode.RESTRICTED has been decoded in
\* RestrictionCode: a member of that code list with the same token.
C28_Witness ==
    /\ cl = "ClassificationCode" /\ member = "RESTRICTED" /\ tok = "restricted"
    /\ other.cl = "RestrictionCode" /\ other.member = "RESTRICTED"

=============================================================================
